---- MODULE Spec2Model ----
(***************************************************************************)
(* pure-rust-locales: the locale grammar parser (generate-api/src/parser.rs)*)
(* and the schema unifier (generate-api/src/generator.rs, CodeGenerator).  *)
(*                                                                         *)
(* A Rust string is modelled as a sequence of one-character strings, so    *)
(* that replace, to_uppercase, Debug formatting and the nom combinators    *)
(* act on characters as the code does.                                     *)
(***************************************************************************)
EXTENDS Integers, Sequences, FiniteSets, TLC

VARIABLES
    objects,          \* CodeGenerator::new argument: lang -> Vec<parser::Object>
    pc,               \* position inside CodeGenerator::new / generate
    todo,             \* locales the first pass has not visited yet
    cur,              \* locale being visited (<<>> between locales)
    oi,               \* index of the next object of cur
    groups,           \* remaining (key, group) pairs of the object being folded
    fields,           \* the BTreeMap<Field, Value> being built for that object
    by_language,      \* BTreeMap<Lang, BTreeMap<Key, Category>>
    field_metadata,   \* BTreeMap<Key, BTreeMap<Field, Meta>>
    normalized_langs, \* BTreeMap<Lang, String>
    second_todo,      \* locales the second pass has not visited yet
    visited,          \* the order in which the HashMap yielded the locales
    out,              \* what generate emitted: lang -> category -> item
    variants          \* what generate_variants emitted: the enum and its conversion

gvars == <<objects, pc, todo, cur, oi, groups, fields, by_language,
           field_metadata, normalized_langs, second_todo, visited, out, variants>>

VARIABLES
    input,            \* parser::parse argument: the text of a locale file
    remaining,        \* parse_locale: i, the text not consumed yet
    special_chars,    \* parse_locale: (comment_char, escape_char)
    parsed,           \* parse_locale: objects, the Vec<Object> being built
    ppc               \* position inside parse_locale

pvars == <<input, remaining, special_chars, parsed, ppc>>

VARIABLES
    dir,              \* main: the locales directory, file name -> contents
    entries,          \* main: the names fs::read_dir has not yielded yet
    locales,          \* main: locales, the HashMap handed to CodeGenerator::new
    mpc               \* position inside main

mvars == <<dir, entries, locales, mpc>>

(* main is not running *)
MainIdle ==
    /\ dir = <<>>
    /\ entries = {}
    /\ locales = <<>>
    /\ mpc = "idle"

(* a Value, its Display text and the Value the value rule reads back *)
VARIABLES shown, displayed, reparsed, vpc

rvars == <<shown, displayed, reparsed, vpc>>

ValueIdle ==
    /\ shown = <<>>
    /\ displayed = <<>>
    /\ reparsed = <<>>
    /\ vpc = "idle"

-----------------------------------------------------------------------------
(* Characters and strings *)

(* printable ASCII: codes 32..95 and 97..126 *)
PrintableLow ==
    <<" ", "!", "\"", "#", "$", "%", "&", "'", "(", ")", "*", "+", ",", "-", ".", "/",
      "0", "1", "2", "3", "4", "5", "6", "7", "8", "9", ":", ";", "<", "=", ">", "?",
      "@", "A", "B", "C", "D", "E", "F", "G", "H", "I", "J", "K", "L", "M", "N", "O",
      "P", "Q", "R", "S", "T", "U", "V", "W", "X", "Y", "Z", "[", "\\", "]", "^", "_">>

PrintableHigh ==
    <<"a", "b", "c", "d", "e", "f", "g", "h", "i", "j", "k", "l", "m", "n", "o",
      "p", "q", "r", "s", "t", "u", "v", "w", "x", "y", "z", "{", "|", "}", "~">>

Chars ==
    {PrintableLow[n] : n \in DOMAIN PrintableLow}
        \cup {PrintableHigh[n] : n \in DOMAIN PrintableHigh}
        \cup {"\t", "\n", "\r"}

CharCode ==
    [c \in Chars |->
        IF c = "\t" THEN 9
        ELSE IF c = "\n" THEN 10
        ELSE IF c = "\r" THEN 13
        ELSE IF \E n \in DOMAIN PrintableLow : PrintableLow[n] = c
             THEN 31 + (CHOOSE n \in DOMAIN PrintableLow : PrintableLow[n] = c)
        ELSE 96 + (CHOOSE n \in DOMAIN PrintableHigh : PrintableHigh[n] = c)]

CharOf(n) == CHOOSE c \in Chars : CharCode[c] = n

IsLower(c) == CharCode[c] >= 97 /\ CharCode[c] <= 122
IsUpper(c) == CharCode[c] >= 65 /\ CharCode[c] <= 90
IsDigit(c) == CharCode[c] >= 48 /\ CharCode[c] <= 57

Range(s) == {s[n] : n \in DOMAIN s}

Drop(s, n) == SubSeq(s, n + 1, Len(s))
Take(s, n) == SubSeq(s, 1, n)

StartsWith(s, p) == Len(p) <= Len(s) /\ Take(s, Len(p)) = p

RECURSIVE Concat(_)
Concat(ss) == IF ss = <<>> THEN <<>> ELSE Head(ss) \o Concat(Tail(ss))

RECURSIVE StrLeq(_, _)
StrLeq(a, b) ==
    IF a = <<>> THEN TRUE
    ELSE IF b = <<>> THEN FALSE
    ELSE IF CharCode[a[1]] < CharCode[b[1]] THEN TRUE
    ELSE IF CharCode[a[1]] > CharCode[b[1]] THEN FALSE
    ELSE StrLeq(Tail(a), Tail(b))

RECURSIVE SortedStrs(_)
SortedStrs(S) ==
    IF S = {} THEN <<>>
    ELSE LET m == CHOOSE x \in S : \A y \in S : StrLeq(x, y)
         IN  <<m>> \o SortedStrs(S \ {m})

(* str::replace: non-overlapping matches, left to right *)
RECURSIVE Replace(_, _, _)
Replace(s, pat, rep) ==
    IF s = <<>> THEN <<>>
    ELSE IF StartsWith(s, pat) THEN rep \o Replace(Drop(s, Len(pat)), pat, rep)
    ELSE <<s[1]>> \o Replace(Tail(s), pat, rep)

to_uppercase(s) ==
    [n \in DOMAIN s |-> IF IsLower(s[n]) THEN CharOf(CharCode[s[n]] - 32) ELSE s[n]]

(* <str as Debug>::fmt: quotes, with backslash escapes *)
EscapeDebug(c) ==
    IF c = "\"" THEN <<"\\", "\"">>
    ELSE IF c = "\\" THEN <<"\\", "\\">>
    ELSE IF c = "\n" THEN <<"\\", "n">>
    ELSE IF c = "\t" THEN <<"\\", "t">>
    ELSE IF c = "\r" THEN <<"\\", "r">>
    ELSE <<c>>

DebugStr(s) == <<"\"">> \o Concat([n \in DOMAIN s |-> EscapeDebug(s[n])]) \o <<"\"">>

(* <i64 as Debug>::fmt *)
RECURSIVE NatToStr(_)
NatToStr(n) ==
    IF n < 10 THEN <<CharOf(48 + n)>>
    ELSE NatToStr(n \div 10) \o <<CharOf(48 + (n % 10))>>

IntToStr(n) == IF n < 0 THEN <<"-">> \o NatToStr(0 - n) ELSE NatToStr(n)

-----------------------------------------------------------------------------
(* parser::Value and parser::Object *)

RawValue(s) == [tag |-> "Raw", s |-> s, n |-> 0]
StringValue(s) == [tag |-> "String", s |-> s, n |-> 0]
IntegerValue(n) == [tag |-> "Integer", s |-> <<>>, n |-> n]

(* impl From<&Value> for u8 *)
ValueU8(v) == IF v.tag = "Integer" THEN 1 ELSE 0

(* impl Display for Value *)
ValueToString(v) == IF v.tag = "Integer" THEN IntToStr(v.n) ELSE DebugStr(v.s)

Object(name, values) == [name |-> name, values |-> values]

-----------------------------------------------------------------------------
(* generator: Meta, ContainerType, Value, Category *)

MetaNew == [optional |-> FALSE, container_ty |-> "Singleton", ty |-> "None"]

(* mark_str that forgets to widen an Integer *)
mark_str_keeps_integer(meta) ==
    [meta EXCEPT !.ty = IF meta.ty = "None" THEN "String" ELSE meta.ty]

mark_str(meta) ==
    [meta EXCEPT !.ty = CASE meta.ty = "Integer" -> "String"
                          [] meta.ty = "String" -> "String"
                          [] meta.ty = "None" -> "String"]

(* mark_int that records nothing *)
mark_int_records_nothing(meta) == meta

(* mark_int that overwrites whatever was recorded *)
mark_int_overwrites(meta) == [meta EXCEPT !.ty = "Integer"]

mark_int(meta) ==
    [meta EXCEPT !.ty = CASE meta.ty = "Integer" -> "Integer"
                          [] meta.ty = "String" -> "String"
                          [] meta.ty = "None" -> "Integer"]

make_optional(meta) == [meta EXCEPT !.optional = TRUE]

(* into_array that does not keep an Array2D *)
into_array_demotes(c) == "Array"

into_array(c) == IF c = "Singleton" THEN "Array" ELSE c

into_array_2d(c) ==
    IF c = "Singleton" THEN "Array2D" ELSE IF c = "Array" THEN "Array2D" ELSE c

mark_array(meta) == [meta EXCEPT !.container_ty = into_array(meta.container_ty)]

mark_array_2d(meta) == [meta EXCEPT !.container_ty = into_array_2d(meta.container_ty)]

ValueEmpty == [kind |-> "Empty", lit |-> <<>>, arr |-> <<>>, mat |-> <<>>]
ValueLiteral(x) == [kind |-> "Literal", lit |-> x, arr |-> <<>>, mat |-> <<>>]
ValueArray(x) == [kind |-> "Array", lit |-> <<>>, arr |-> x, mat |-> <<>>]
ValueArray2d(x) == [kind |-> "Array2d", lit |-> <<>>, arr |-> <<>>, mat |-> x]

CategoryLink(lang, name) ==
    [kind |-> "Link", lang |-> lang, name |-> name, fields |-> <<>>]
CategoryFields(fs) ==
    [kind |-> "Fields", lang |-> <<>>, name |-> <<>>, fields |-> fs]

(* BTreeMap::insert *)
Put(m, k, v) == [x \in (DOMAIN m) \cup {k} |-> IF x = k THEN v ELSE m[x]]

-----------------------------------------------------------------------------
(* CodeGenerator::new, first pass *)

LC_COLLATE == <<"L", "C", "_", "C", "O", "L", "L", "A", "T", "E">>
LC_CTYPE == <<"L", "C", "_", "C", "T", "Y", "P", "E">>
LC_MEASUREMENT == <<"L", "C", "_", "M", "E", "A", "S", "U", "R", "E", "M", "E", "N", "T">>
LC_PAPER == <<"L", "C", "_", "P", "A", "P", "E", "R">>
LC_NAME == <<"L", "C", "_", "N", "A", "M", "E">>

IgnoredCategory(name) ==
    \/ name = LC_COLLATE
    \/ name = LC_CTYPE
    \/ name = LC_MEASUREMENT
    \/ name = LC_PAPER
    \/ name = LC_NAME

KeyCopy == <<"c", "o", "p", "y">>

NormalizeLang(lang) == Replace(lang, <<"@">>, <<"_">>)

(* the chain of replace calls and to_uppercase applied to a field key *)
NormalizeKey(key) ==
    to_uppercase(
        Replace(Replace(Replace(Replace(Replace(Replace(Replace(key,
            <<"'">>, <<>>),
            <<"\"">>, <<>>),
            <<"-">>, <<"_">>),
            <<"=">>, <<"e", "q">>),
            <<"<">>, <<"l", "t">>),
            <<".", ".">>, <<"d", "o", "t", "d", "o", "t">>),
            <<"2">>, <<"t", "w", "o">>))

(* Itertools::all_equal over a sequence *)
AllEqual(s) == \A a, b \in DOMAIN s : s[a] = s[b]

Tags(run) == [n \in DOMAIN run |-> ValueU8(run[n])]

(* .filter(non-empty).sorted_by(key).group_by(key): the sort is stable, so a
   group is the runs of one key in source order, the groups in key order *)
GroupByKey(values) ==
    LET kept == SelectSeq(values, LAMBDA x : x[2] # <<>>)
        keys == SortedStrs({kept[n][1] : n \in DOMAIN kept})
        runs(k) == LET sel == SelectSeq(kept, LAMBDA x : x[1] = k)
                   IN  [n \in DOMAIN sel |-> sel[n][2]]
    IN  [n \in DOMAIN keys |-> <<keys[n], runs(keys[n])>>]

MarkType(meta, v) == IF v.tag = "Integer" THEN mark_int(meta) ELSE mark_str(meta)

RECURSIVE MarkAll(_, _)
MarkAll(meta, vs) ==
    IF vs = <<>> THEN meta ELSE MarkAll(MarkType(meta, Head(vs)), Tail(vs))

Strings(run) == [n \in DOMAIN run |-> ValueToString(run[n])]

(* the loop body without the all_equal test of its last arm *)
ClassifyGroupUnchecked(meta, group) ==
    IF Len(group) = 1 /\ Len(group[1]) = 1
    THEN [ok |-> TRUE,
          meta |-> MarkType(meta, group[1][1]),
          value |-> ValueLiteral(ValueToString(group[1][1]))]
    ELSE IF Len(group) = 1 /\ AllEqual(Tags(group[1]))
    THEN [ok |-> TRUE,
          meta |-> MarkType(mark_array(meta), group[1][1]),
          value |-> ValueArray(Strings(group[1]))]
    ELSE [ok |-> TRUE,
          meta |-> MarkAll(mark_array_2d(meta), Concat(group)),
          value |-> ValueArray2d([n \in DOMAIN group |-> Strings(group[n])])]

(* the body of the loop over groups: returns the meta of the key and the value
   inserted into fields, or that the unimplemented!() arm was reached *)
ClassifyGroup(meta, group) ==
    IF Len(group) = 1 /\ group[1] = <<>>
    THEN [ok |-> TRUE, meta |-> make_optional(meta), value |-> ValueEmpty]
    ELSE IF Len(group) = 1 /\ Len(group[1]) = 1
    THEN [ok |-> TRUE,
          meta |-> MarkType(meta, group[1][1]),
          value |-> ValueLiteral(ValueToString(group[1][1]))]
    ELSE IF Len(group) = 1 /\ AllEqual(Tags(group[1]))
    THEN [ok |-> TRUE,
          meta |-> MarkType(mark_array(meta), group[1][1]),
          value |-> ValueArray(Strings(group[1]))]
    ELSE IF AllEqual(Tags(Concat(group)))
    THEN [ok |-> TRUE,
          meta |-> MarkAll(mark_array_2d(meta), Concat(group)),
          value |-> ValueArray2d([n \in DOMAIN group |-> Strings(group[n])])]
    ELSE [ok |-> FALSE, meta |-> meta, value |-> ValueEmpty]

(* cat_field_meta.entry(key).or_insert(Meta::new()) *)
MetaEntry(cat_field_meta, key) ==
    IF key \in DOMAIN cat_field_meta THEN cat_field_meta[key] ELSE MetaNew

(* the single-field arm: Link for copy with one String, panic for another
   payload, nothing for any other key *)
SingleField(lang_categories, object) ==
    LET key == object.values[1][1]
        value == object.values[1][2]
    IN  IF key = KeyCopy
        THEN IF Len(value) # 1 THEN [ok |-> FALSE, cats |-> lang_categories]
             ELSE IF value[1].tag = "String"
             THEN [ok |-> TRUE,
                   cats |-> Put(lang_categories, object.name,
                                CategoryLink(NormalizeLang(value[1].s), object.name))]
             ELSE [ok |-> FALSE, cats |-> lang_categories]
        ELSE [ok |-> TRUE, cats |-> lang_categories]

-----------------------------------------------------------------------------
(* CodeGenerator::new, second pass *)

(* the loop over all_fields without the insert *)
FillFieldsNoInsert(flds, all_fields) == flds

(* the loop over all_fields without make_optional *)
FillMetaNoOptional(flds, all_fields) == all_fields

(* the loop over all_fields for one Fields table *)
FillFields(flds, all_fields) ==
    [k \in (DOMAIN flds) \cup (DOMAIN all_fields) |->
        IF k \in DOMAIN flds THEN flds[k] ELSE ValueEmpty]

FillMeta(flds, all_fields) ==
    [k \in DOMAIN all_fields |->
        IF k \in DOMAIN flds THEN all_fields[k] ELSE make_optional(all_fields[k])]

(* categories.entry(category_name).or_insert(Category::Fields(empty)) *)
CategoryEntry(categories, category_name) ==
    IF category_name \in DOMAIN categories
    THEN categories[category_name]
    ELSE CategoryFields(<<>>)

SecondPassCategories(categories, metadata) ==
    [c \in (DOMAIN categories) \cup (DOMAIN metadata) |->
        IF c \in DOMAIN metadata
        THEN LET language_cats == CategoryEntry(categories, c)
             IN  IF language_cats.kind = "Link" THEN language_cats
                 ELSE CategoryFields(FillFields(language_cats.fields, metadata[c]))
        ELSE categories[c]]

SecondPassMetadata(categories, metadata) ==
    [c \in DOMAIN metadata |->
        LET language_cats == CategoryEntry(categories, c)
        IN  IF language_cats.kind = "Link" THEN metadata[c]
            ELSE FillMeta(language_cats.fields, metadata[c])]

-----------------------------------------------------------------------------
(* CodeGenerator::generate *)

(* Cow::Borrowed(self) in every arm: no value is lifted *)
with_fixed_type_borrowed(value, meta) == [ok |-> TRUE, value |-> value]

(* Value::with_fixed_type; ok is FALSE where the code is unreachable!() *)
with_fixed_type(value, meta) ==
    CASE meta.container_ty = "Singleton" ->
            IF value.kind \in {"Empty", "Literal"}
            THEN [ok |-> TRUE, value |-> value]
            ELSE [ok |-> FALSE, value |-> value]
      [] meta.container_ty = "Array" ->
            IF value.kind = "Empty" THEN [ok |-> TRUE, value |-> value]
            ELSE IF value.kind = "Literal"
            THEN [ok |-> TRUE, value |-> ValueArray(<<value.lit>>)]
            ELSE IF value.kind = "Array" THEN [ok |-> TRUE, value |-> value]
            ELSE [ok |-> FALSE, value |-> value]
      [] meta.container_ty = "Array2D" ->
            IF value.kind = "Empty" THEN [ok |-> TRUE, value |-> value]
            ELSE IF value.kind = "Literal"
            THEN [ok |-> TRUE, value |-> ValueArray2d(<<<<value.lit>>>>)]
            ELSE IF value.kind = "Array"
            THEN [ok |-> TRUE, value |-> ValueArray2d(<<value.arr>>)]
            ELSE [ok |-> TRUE, value |-> value]

(* LiteralFormatter *)
LiteralFormat(x, ty) == IF ty = "String" THEN DebugStr(x) ELSE x

(* ValueFormatter::format: every literal of the value through LiteralFormatter *)
FormatValue(value, ty) ==
    CASE value.kind = "Literal" -> ValueLiteral(LiteralFormat(value.lit, ty))
      [] value.kind = "Array" ->
            ValueArray([n \in DOMAIN value.arr |-> LiteralFormat(value.arr[n], ty)])
      [] value.kind = "Array2d" ->
            ValueArray2d([r \in DOMAIN value.mat |->
                [n \in DOMAIN value.mat[r] |-> LiteralFormat(value.mat[r][n], ty)]])
      [] value.kind = "Empty" -> ValueEmpty

(* Value::generate with TypeFormatter and ValueFormatter: the constant emitted
   for one field; ok is FALSE where the code unwraps None or is unreachable!() *)
GenerateValue(value, meta) ==
    IF meta.ty = "None" THEN [ok |-> FALSE, ty |-> meta, some |-> FALSE, val |-> ValueEmpty]
    ELSE IF value.kind = "Empty"
    THEN [ok |-> meta.optional, ty |-> meta, some |-> FALSE, val |-> ValueEmpty]
    ELSE [ok |-> TRUE, ty |-> meta, some |-> meta.optional,
          val |-> FormatValue(value, meta.ty)]

GenerateField(flds, field_name, meta) ==
    IF field_name \notin DOMAIN flds
    THEN [ok |-> FALSE, ty |-> meta, some |-> FALSE, val |-> ValueEmpty]
    ELSE LET fixed == with_fixed_type(flds[field_name], meta)
         IN  IF fixed.ok THEN GenerateValue(fixed.value, meta)
             ELSE [ok |-> FALSE, ty |-> meta, some |-> FALSE, val |-> ValueEmpty]

(* one category of one locale: a re-export for a Link, a module of constants
   for a Fields table *)
GenerateCategory(category, category_metadata) ==
    IF category.kind = "Link"
    THEN [ok |-> TRUE, kind |-> "use", lang |-> category.lang,
          name |-> category.name, consts |-> <<>>]
    ELSE LET consts == [f \in DOMAIN category_metadata |->
                           GenerateField(category.fields, f, category_metadata[f])]
         IN  [ok |-> \A f \in DOMAIN consts : consts[f].ok, kind |-> "mod",
              lang |-> <<>>, name |-> <<>>, consts |-> consts]

GenerateLang(categories, metadata) ==
    IF \E c \in DOMAIN categories : c \notin DOMAIN metadata
    THEN [ok |-> FALSE, cats |-> <<>>]
    ELSE LET cats == [c \in DOMAIN categories |->
                         GenerateCategory(categories[c], metadata[c])]
         IN  [ok |-> \A c \in DOMAIN cats : cats[c].ok, cats |-> cats]

-----------------------------------------------------------------------------
(* Inputs of the schema unifier *)

MaxObjects == 2

AA == <<"a", "a">>
BB == <<"b", "b", "@", "x">>
ZZ == <<"z", "z">>
Langs == {AA, BB}

LC_TIME == <<"L", "C", "_", "T", "I", "M", "E">>
LC_NUMERIC == <<"L", "C", "_", "N", "U", "M", "E", "R", "I", "C">>

KeyInclude == <<"i", "n", "c", "l", "u", "d", "e">>
KeyK == <<"k">>
KeyJ == <<"j">>

ObjectPool ==
    { Object(LC_TIME, << <<KeyK, <<IntegerValue(1)>> >>,
                         <<KeyJ, <<StringValue(<<"%", "d">>)>> >>,
                         <<<<"e">>, <<>> >> >>),
      Object(LC_TIME, << <<KeyK, <<RawValue(<<"a">>)>> >>,
                         <<KeyJ, <<IntegerValue(1), IntegerValue(2)>> >> >>),
      Object(LC_TIME, << <<KeyJ, <<IntegerValue(3), IntegerValue(3)>> >>,
                         <<KeyJ, <<IntegerValue(-1)>> >> >>),
      Object(LC_TIME, << <<KeyK, <<IntegerValue(1), StringValue(<<"a">>)>> >>,
                         <<KeyJ, <<IntegerValue(1)>> >> >>),
      Object(LC_TIME, << <<KeyCopy, <<StringValue(BB)>> >> >>),
      Object(LC_TIME, << <<KeyCopy, <<StringValue(AA)>> >> >>),
      Object(LC_TIME, << <<KeyCopy, <<StringValue(ZZ)>> >> >>),
      Object(LC_TIME, << <<KeyInclude, <<StringValue(BB)>> >> >>),
      Object(LC_TIME, << <<KeyK, <<IntegerValue(1)>> >> >>),
      Object(LC_NUMERIC, << <<<<"a", "-", "b">>, <<IntegerValue(3)>> >>,
                            <<<<"a", "_", "b">>, <<StringValue(<<",">>)>> >> >>),
      Object(LC_NUMERIC, << <<KeyCopy, <<IntegerValue(1)>> >> >>),
      Object(LC_PAPER, << <<KeyK, <<IntegerValue(1), RawValue(<<"a">>)>> >>,
                          <<KeyJ, <<IntegerValue(1)>> >> >>) }

(* a sequence of objects shared out between the two locales *)
Share(s, j) == [lang \in Langs |-> IF lang = AA THEN Take(s, j) ELSE Drop(s, j)]

-----------------------------------------------------------------------------
(* CodeGenerator::generate_variants *)

LC_IDENTIFICATION == <<"L", "C", "_", "I", "D", "E", "N", "T", "I", "F", "I", "C", "A", "T", "I", "O", "N">>
KeyTITLE == <<"T", "I", "T", "L", "E">>
POSIX == <<"P", "O", "S", "I", "X">>
PosixTitle == <<"P", "O", "S", "I", "X", " ", "S", "t", "a", "n", "d", "a", "r", "d", " ", "L", "o", "c", "a", "l", "e", ".">>

TitleWithDot(title) ==
    IF title # <<>> /\ title[Len(title)] = "." THEN title ELSE title \o <<".">>

DescWithoutTitle(lang) == IF lang = POSIX THEN PosixTitle ELSE <<>>

(* desc: the doc comment of the variant of lang *)
VariantDesc(categories, lang) ==
    IF LC_IDENTIFICATION \in DOMAIN categories
          /\ categories[LC_IDENTIFICATION].kind = "Fields"
    THEN LET flds == categories[LC_IDENTIFICATION].fields
         IN  IF KeyTITLE \in DOMAIN flds /\ flds[KeyTITLE].kind = "Literal"
             THEN TitleWithDot(flds[KeyTITLE].lit)
             ELSE DescWithoutTitle(lang)
    ELSE <<>>

Variant(categories_by_language, lang, norm) ==
    [lang |-> lang,
     desc |-> IF lang \in DOMAIN categories_by_language
              THEN VariantDesc(categories_by_language[lang], lang)
              ELSE <<>>,
     norm |-> norm]

(* the arm {lang:?} => Ok(Locale::{norm}) matching on the normalized name *)
TryFromArmNormalized(lang, norm) == [pat |-> DebugStr(norm), variant |-> norm]

(* the arm {lang:?} => Ok(Locale::{norm}) *)
TryFromArm(lang, norm) == [pat |-> DebugStr(lang), variant |-> norm]

(* the three loops over normalized_langs, in the order of the BTreeMap: the
   variants of enum Locale, the arms of try_from before the arm
   _ => Err(UnknownLocale), the arms of locale_match *)
generate_variants(categories_by_language, norms) ==
    LET langs == SortedStrs(DOMAIN norms)
    IN  [enum |-> [n \in DOMAIN langs |->
                      Variant(categories_by_language, langs[n], norms[langs[n]])],
         try_from |-> [n \in DOMAIN langs |-> TryFromArm(langs[n], norms[langs[n]])],
         locale_match |-> [n \in DOMAIN langs |-> norms[langs[n]]]]

-----------------------------------------------------------------------------
(* CodeGenerator::new and generate as a state machine *)

GenInit ==
    /\ \E n \in 0..MaxObjects : \E s \in [1..n -> ObjectPool] : \E j \in 0..n :
            objects = Share(s, j)
    /\ pc = "pick"
    /\ todo = DOMAIN objects
    /\ cur = <<>>
    /\ oi = 0
    /\ groups = <<>>
    /\ fields = <<>>
    /\ by_language = <<>>
    /\ field_metadata = <<>>
    /\ normalized_langs = <<>>
    /\ second_todo = {}
    /\ visited = <<>>
    /\ out = <<>>
    /\ variants = <<>>
    /\ input = <<>>
    /\ remaining = <<>>
    /\ special_chars = <<>>
    /\ parsed = <<>>
    /\ ppc = "idle"
    /\ MainIdle
    /\ ValueIdle

(* the head of the loop over the HashMap, in whatever order it iterates *)
PickLocale ==
    /\ pc = "pick"
    /\ \E lang \in todo :
        /\ cur' = lang
        /\ todo' = todo \ {lang}
        /\ visited' = Append(visited, lang)
        /\ normalized_langs' = Put(normalized_langs, lang, NormalizeLang(lang))
        /\ by_language' = IF lang \in DOMAIN by_language THEN by_language
                          ELSE Put(by_language, lang, <<>>)
    /\ oi' = 1
    /\ pc' = "objects"
    /\ UNCHANGED <<objects, groups, fields, field_metadata, second_todo, out, variants>>
    /\ UNCHANGED <<pvars, mvars, rvars>>

(* an object with one of the five ignored names *)
SkipObject ==
    /\ pc = "objects"
    /\ oi <= Len(objects[cur])
    /\ IgnoredCategory(objects[cur][oi].name)
    /\ oi' = oi + 1
    /\ UNCHANGED <<objects, pc, todo, cur, groups, fields, by_language,
                   field_metadata, normalized_langs, second_todo, visited, out, variants>>
    /\ UNCHANGED <<pvars, mvars, rvars>>

(* an object with exactly one field *)
SingleFieldObject ==
    /\ pc = "objects"
    /\ oi <= Len(objects[cur])
    /\ ~IgnoredCategory(objects[cur][oi].name)
    /\ Len(objects[cur][oi].values) = 1
    /\ LET r == SingleField(by_language[cur], objects[cur][oi])
       IN  IF r.ok
           THEN /\ by_language' = [by_language EXCEPT ![cur] = r.cats]
                /\ oi' = oi + 1
                /\ pc' = pc
           ELSE /\ pc' = "panic"
                /\ UNCHANGED <<by_language, oi>>
    /\ UNCHANGED <<objects, todo, cur, groups, fields, field_metadata,
                   normalized_langs, second_todo, visited, out, variants>>
    /\ UNCHANGED <<pvars, mvars, rvars>>

(* any other object: a Fields table is started *)
BeginFields ==
    /\ pc = "objects"
    /\ oi <= Len(objects[cur])
    /\ ~IgnoredCategory(objects[cur][oi].name)
    /\ Len(objects[cur][oi].values) # 1
    /\ fields' = <<>>
    /\ field_metadata' = IF objects[cur][oi].name \in DOMAIN field_metadata
                         THEN field_metadata
                         ELSE Put(field_metadata, objects[cur][oi].name, <<>>)
    /\ groups' = GroupByKey(objects[cur][oi].values)
    /\ pc' = "groups"
    /\ UNCHANGED <<objects, todo, cur, oi, by_language, normalized_langs,
                   second_todo, visited, out, variants>>
    /\ UNCHANGED <<pvars, mvars, rvars>>

(* one iteration of the loop over the groups of the object *)
FoldGroup ==
    /\ pc = "groups"
    /\ groups # <<>>
    /\ LET name == objects[cur][oi].name
           key == NormalizeKey(Head(groups)[1])
           r == ClassifyGroup(MetaEntry(field_metadata[name], key), Head(groups)[2])
       IN  IF r.ok
           THEN /\ field_metadata' =
                      [field_metadata EXCEPT ![name] = Put(@, key, r.meta)]
                /\ fields' = Put(fields, key, r.value)
                /\ groups' = Tail(groups)
                /\ pc' = pc
           ELSE /\ pc' = "panic"
                /\ UNCHANGED <<field_metadata, fields, groups>>
    /\ UNCHANGED <<objects, todo, cur, oi, by_language, normalized_langs,
                   second_todo, visited, out, variants>>
    /\ UNCHANGED <<pvars, mvars, rvars>>

(* lang_categories.insert(object.name, Category::Fields(fields)) *)
EndFields ==
    /\ pc = "groups"
    /\ groups = <<>>
    /\ by_language' = [by_language EXCEPT
                          ![cur] = Put(@, objects[cur][oi].name, CategoryFields(fields))]
    /\ fields' = <<>>
    /\ oi' = oi + 1
    /\ pc' = "objects"
    /\ UNCHANGED <<objects, todo, cur, groups, field_metadata, normalized_langs,
                   second_todo, visited, out, variants>>
    /\ UNCHANGED <<pvars, mvars, rvars>>

EndLocale ==
    /\ pc = "objects"
    /\ oi > Len(objects[cur])
    /\ cur' = <<>>
    /\ oi' = 0
    /\ pc' = IF todo = {} THEN "second" ELSE "pick"
    /\ second_todo' = IF todo = {} THEN DOMAIN by_language ELSE second_todo
    /\ UNCHANGED <<objects, todo, groups, fields, by_language, field_metadata,
                   normalized_langs, visited, out, variants>>
    /\ UNCHANGED <<pvars, mvars, rvars>>

(* one iteration of the second loop, over by_language in key order *)
SecondPass ==
    /\ pc = "second"
    /\ second_todo # {}
    /\ LET lang == Head(SortedStrs(second_todo))
       IN  /\ by_language' = [by_language EXCEPT
                  ![lang] = SecondPassCategories(@, field_metadata)]
           /\ field_metadata' = SecondPassMetadata(by_language[lang], field_metadata)
           /\ second_todo' = second_todo \ {lang}
    /\ UNCHANGED <<objects, pc, todo, cur, oi, groups, fields, normalized_langs, visited, out, variants>>
    /\ UNCHANGED <<pvars, mvars, rvars>>

(* CodeGenerator::new returns Self *)
EndNew ==
    /\ pc = "second"
    /\ second_todo = {}
    /\ pc' = "done"
    /\ UNCHANGED <<objects, todo, cur, oi, groups, fields, by_language,
                   field_metadata, normalized_langs, second_todo, visited, out, variants>>
    /\ UNCHANGED <<pvars, mvars, rvars>>

(* CodeGenerator::generate over the result *)
Generate ==
    /\ pc = "done"
    /\ LET mods == [lang \in DOMAIN by_language |->
                       GenerateLang(by_language[lang], field_metadata)]
       IN  IF \A lang \in DOMAIN mods : mods[lang].ok
           THEN /\ out' = [lang \in DOMAIN mods |->
                              [norm |-> normalized_langs[lang], cats |-> mods[lang].cats]]
                /\ variants' = generate_variants(by_language, normalized_langs)
                /\ pc' = "generated"
           ELSE /\ out' = out
                /\ variants' = variants
                /\ pc' = "gen_panic"
    /\ UNCHANGED <<objects, todo, cur, oi, groups, fields, by_language,
                   field_metadata, normalized_langs, second_todo, visited>>
    /\ UNCHANGED <<pvars, mvars, rvars>>

GenNext ==
    \/ PickLocale
    \/ SkipObject
    \/ SingleFieldObject
    \/ BeginFields
    \/ FoldGroup
    \/ EndFields
    \/ EndLocale
    \/ SecondPass
    \/ EndNew
    \/ Generate

Spec == GenInit /\ [][GenNext]_gvars

-----------------------------------------------------------------------------
(* CodeGenerator::new as a function of the order in which the HashMap yields
   the locales *)

RECURSIVE FoldGroups(_, _, _)
FoldGroups(cat_field_meta, flds, gs) ==
    IF gs = <<>> THEN [ok |-> TRUE, meta |-> cat_field_meta, fields |-> flds]
    ELSE LET key == NormalizeKey(Head(gs)[1])
             r == ClassifyGroup(MetaEntry(cat_field_meta, key), Head(gs)[2])
         IN  IF r.ok
             THEN FoldGroups(Put(cat_field_meta, key, r.meta),
                             Put(flds, key, r.value), Tail(gs))
             ELSE [ok |-> FALSE, meta |-> cat_field_meta, fields |-> flds]

(* the body of the loop over the objects of one locale *)
VisitObject(st, lang, object) ==
    IF ~st.ok \/ IgnoredCategory(object.name) THEN st
    ELSE IF Len(object.values) = 1
    THEN LET r == SingleField(st.by_language[lang], object)
         IN  [st EXCEPT !.ok = r.ok, !.by_language[lang] = r.cats]
    ELSE LET cat_field_meta == IF object.name \in DOMAIN st.field_metadata
                               THEN st.field_metadata[object.name] ELSE <<>>
             r == FoldGroups(cat_field_meta, <<>>, GroupByKey(object.values))
         IN  [ok |-> r.ok,
              by_language |-> [st.by_language EXCEPT
                  ![lang] = Put(@, object.name, CategoryFields(r.fields))],
              field_metadata |-> Put(st.field_metadata, object.name, r.meta)]

RECURSIVE VisitObjects(_, _, _)
VisitObjects(st, lang, objs) ==
    IF objs = <<>> THEN st
    ELSE VisitObjects(VisitObject(st, lang, Head(objs)), lang, Tail(objs))

RECURSIVE FirstPass(_, _, _)
FirstPass(st, given, order) ==
    IF order = <<>> THEN st
    ELSE LET lang == Head(order)
             entered == [st EXCEPT !.by_language =
                            IF lang \in DOMAIN @ THEN @ ELSE Put(@, lang, <<>>)]
         IN  FirstPass(VisitObjects(entered, lang, given[lang]), given, Tail(order))

RECURSIVE SecondPassAll(_, _)
SecondPassAll(st, order) ==
    IF order = <<>> THEN st
    ELSE LET lang == Head(order)
         IN  SecondPassAll(
                [st EXCEPT
                    !.by_language[lang] = SecondPassCategories(@, st.field_metadata),
                    !.field_metadata =
                        SecondPassMetadata(st.by_language[lang], st.field_metadata)],
                Tail(order))

NewInOrder(given, order) ==
    LET first == FirstPass([ok |-> TRUE, by_language |-> <<>>, field_metadata |-> <<>>],
                           given, order)
    IN  IF first.ok THEN SecondPassAll(first, SortedStrs(DOMAIN first.by_language))
        ELSE first

-----------------------------------------------------------------------------
(* What the fold observes: the groups of the objects that reach the grouping
   step, by category name and normalized key *)

ReachesGrouping(object) ==
    ~IgnoredCategory(object.name) /\ Len(object.values) # 1

ObservedGroups(c, k) ==
    UNION { UNION { { g[2] : g \in { x \in Range(GroupByKey(objects[lang][n].values)) :
                                        NormalizeKey(x[1]) = k } } :
                      n \in { m \in DOMAIN objects[lang] :
                                 /\ ReachesGrouping(objects[lang][m])
                                 /\ objects[lang][m].name = c } } :
            lang \in DOMAIN objects }

ObservedValues(c, k) == UNION { Range(Concat(g)) : g \in ObservedGroups(c, k) }

Rank(container_ty) ==
    CASE container_ty = "Singleton" -> 1
      [] container_ty = "Array" -> 2
      [] container_ty = "Array2D" -> 3

(* the arity a group is observed with: one run of one value, one run of
   several values, several runs *)
GroupArity(group) ==
    IF Len(group) > 1 THEN 3 ELSE IF Len(group[1]) > 1 THEN 2 ELSE 1

MaxOf(S) == CHOOSE x \in S : \A y \in S : y <= x

MetaKeys(metadata) ==
    UNION { {<<c, k>> : k \in DOMAIN metadata[c]} : c \in DOMAIN metadata }

-----------------------------------------------------------------------------
(* C1: after CodeGenerator::new, every locale has an entry for every category
   of the canonical schema, and where that entry is a Fields table its key set
   is the key set of the category's canonical metadata; so two locales with a
   Fields table for the same category have the same keys. *)
C1_SameKeySets ==
    pc = "done" =>
        \A lang \in DOMAIN by_language : \A c \in DOMAIN field_metadata :
            /\ c \in DOMAIN by_language[lang]
            /\ by_language[lang][c].kind = "Fields" =>
                   DOMAIN by_language[lang][c].fields = DOMAIN field_metadata[c]

(* two locales hold a Fields table of one category, and a key that one of them
   supplied was filled in for the other *)
C1_Witness ==
    /\ pc = "done"
    /\ \E c \in DOMAIN field_metadata : \E k \in DOMAIN field_metadata[c] :
           /\ by_language[AA][c].kind = "Fields"
           /\ by_language[BB][c].kind = "Fields"
           /\ by_language[AA][c].fields[k] = ValueEmpty
           /\ by_language[BB][c].fields[k] # ValueEmpty

(* C2: the canonical schema and every per-locale table that CodeGenerator::new
   returns are the ones obtained by visiting the locales in sorted order,
   whatever order the HashMap yielded them in. *)
C2_OrderIndependent ==
    pc = "done" =>
        LET r == NewInOrder(objects, SortedStrs(DOMAIN objects))
        IN  /\ r.ok
            /\ r.field_metadata = field_metadata
            /\ r.by_language = by_language

(* the locales were visited out of sorted order, and both contributed to a key
   whose type was widened *)
C2_Witness ==
    /\ pc = "done"
    /\ visited # SortedStrs(DOMAIN objects)
    /\ \E ck \in MetaKeys(field_metadata) :
           /\ by_language[AA][ck[1]].kind = "Fields"
           /\ by_language[BB][ck[1]].kind = "Fields"
           /\ \E v, w \in ObservedValues(ck[1], ck[2]) :
                  v.tag = "Integer" /\ w.tag # "Integer"
           /\ \E g, h \in ObservedGroups(ck[1], ck[2]) : GroupArity(g) # GroupArity(h)

(* C3: a step of the fold never lowers the arity class of a canonical field
   (Singleton < Array < Array2D), and the arity CodeGenerator::new returns is
   the highest arity the key was observed with in any locale. *)
C3_ArityMonotone ==
    [][ /\ \A ck \in MetaKeys(field_metadata) :
              /\ ck \in MetaKeys(field_metadata')
              /\ Rank(field_metadata'[ck[1]][ck[2]].container_ty)
                     >= Rank(field_metadata[ck[1]][ck[2]].container_ty)
        /\ pc' = "done" =>
              \A ck \in MetaKeys(field_metadata') :
                  Rank(field_metadata'[ck[1]][ck[2]].container_ty)
                      = MaxOf({GroupArity(g) : g \in ObservedGroups(ck[1], ck[2])}) ]_gvars

(* a key observed as a matrix in one place and as an array in another ends as
   Array2D *)
C3_Witness ==
    /\ pc = "done"
    /\ \E ck \in MetaKeys(field_metadata) :
           /\ field_metadata[ck[1]][ck[2]].container_ty = "Array2D"
           /\ \E g \in ObservedGroups(ck[1], ck[2]) : GroupArity(g) = 2
           /\ visited[1] = BB
           /\ \E n \in DOMAIN objects[BB] :
                  /\ ReachesGrouping(objects[BB][n])
                  /\ \E x \in Range(GroupByKey(objects[BB][n].values)) :
                         NormalizeKey(x[1]) = ck[2] /\ GroupArity(x[2]) = 3

(* C4: the canonical type CodeGenerator::new returns for a field is String
   exactly when some observed value of the key is textual (Raw or String) and
   Integer exactly when every observed value is an Integer; and a step of the
   fold never changes a type that is String. *)
C4_TypeWidening ==
    [][ /\ \A ck \in MetaKeys(field_metadata) :
              field_metadata[ck[1]][ck[2]].ty = "String" =>
                  field_metadata'[ck[1]][ck[2]].ty = "String"
        /\ pc' = "done" =>
              \A ck \in MetaKeys(field_metadata') :
                  LET ty == field_metadata'[ck[1]][ck[2]].ty
                      seen == ObservedValues(ck[1], ck[2])
                  IN  /\ ty = "String" <=> \E v \in seen : v.tag \in {"Raw", "String"}
                      /\ ty = "Integer" <=>
                             (seen # {} /\ \A v \in seen : v.tag = "Integer") ]_gvars

(* a key that the first locale visited gave text and a later one an Integer *)
C4_Witness ==
    /\ pc = "done"
    /\ Len(visited) = 2
    /\ \E ck \in MetaKeys(field_metadata) :
           /\ field_metadata[ck[1]][ck[2]].ty = "String"
           /\ \E n \in DOMAIN objects[visited[1]] :
                  /\ ReachesGrouping(objects[visited[1]][n])
                  /\ objects[visited[1]][n].name = ck[1]
                  /\ \E x \in Range(GroupByKey(objects[visited[1]][n].values)) :
                         /\ NormalizeKey(x[1]) = ck[2]
                         /\ \E v \in Range(Concat(x[2])) : v.tag = "Raw"
           /\ \E n \in DOMAIN objects[visited[2]] :
                  /\ ReachesGrouping(objects[visited[2]][n])
                  /\ objects[visited[2]][n].name = ck[1]
                  /\ \E x \in Range(GroupByKey(objects[visited[2]][n].values)) :
                         /\ NormalizeKey(x[1]) = ck[2]
                         /\ \E v \in Range(Concat(x[2])) : v.tag = "Integer"

(* C5: after CodeGenerator::new a canonical field is optional exactly when some
   locale's Fields table of the category holds Value::Empty for the key; so a
   field that is not optional has a value in every Fields table. *)
C5_OptionalIffAbsent ==
    pc = "done" =>
        \A ck \in MetaKeys(field_metadata) :
            field_metadata[ck[1]][ck[2]].optional <=>
                \E lang \in DOMAIN by_language :
                    /\ ck[1] \in DOMAIN by_language[lang]
                    /\ by_language[lang][ck[1]].kind = "Fields"
                    /\ ck[2] \in DOMAIN by_language[lang][ck[1]].fields
                    /\ by_language[lang][ck[1]].fields[ck[2]] = ValueEmpty

(* one category with a field every locale has and a field one locale lacks *)
C5_Witness ==
    /\ pc = "done"
    /\ \E c \in DOMAIN field_metadata : \E k, j \in DOMAIN field_metadata[c] :
           /\ field_metadata[c][k].optional
           /\ ~field_metadata[c][j].optional
           /\ by_language[AA][c].kind = "Fields"
           /\ by_language[BB][c].kind = "Fields"
           /\ by_language[AA][c].fields[k] = ValueEmpty

-----------------------------------------------------------------------------
(* Link categories *)

(* an object whose field list is one copy or include key with one String *)
IsAliasOnly(object) ==
    /\ Len(object.values) = 1
    /\ object.values[1][1] \in {KeyCopy, KeyInclude}
    /\ Len(object.values[1][2]) = 1
    /\ object.values[1][2][1].tag = "String"

AliasTarget(object) == object.values[1][2][1].s

(* the object is the last of its name in its locale *)
LastOfName(lang, n) ==
    \A m \in DOMAIN objects[lang] : m > n => objects[lang][m].name # objects[lang][n].name

(* C6: a category that is one copy or include key with a single String naming
   locale L is a Link to L's category of that name after CodeGenerator::new,
   and not a Fields table (for the last category of that name in the locale,
   and a name that is not one of the five ignored ones). *)
C6_CopyOrIncludeIsLink ==
    pc = "done" =>
        \A lang \in DOMAIN objects : \A n \in DOMAIN objects[lang] :
            LET object == objects[lang][n]
            IN  (IsAliasOnly(object) /\ ~IgnoredCategory(object.name) /\ LastOfName(lang, n)) =>
                    /\ object.name \in DOMAIN by_language[lang]
                    /\ by_language[lang][object.name] =
                           CategoryLink(NormalizeLang(AliasTarget(object)), object.name)

(* a copy category naming a locale that is not in the input *)
HasUnknownLink ==
    \E lang \in DOMAIN objects : \E n \in DOMAIN objects[lang] :
        LET object == objects[lang][n]
        IN  /\ IsAliasOnly(object)
            /\ object.values[1][1] = KeyCopy
            /\ ~IgnoredCategory(object.name)
            /\ AliasTarget(object) \notin DOMAIN objects

(* C7: when a category is a Link naming a locale that is not in the input,
   CodeGenerator::new does not return. *)
C7_UnknownLocaleFails == HasUnknownLink => pc # "done"

(* what a re-export resolves to: the module of that category in the locale
   module of that name, through further re-exports; kind "none" when there is
   no such module or the re-exports run in a circle *)
RECURSIVE ResolveUse(_, _, _)
ResolveUse(emitted, item, fuel) ==
    LET none == [ok |-> FALSE, kind |-> "none", lang |-> <<>>, name |-> <<>>,
                 consts |-> <<>>]
        targets == {l \in DOMAIN emitted : emitted[l].norm = item.lang}
    IN  IF item.kind # "use" THEN item
        ELSE IF fuel = 0 \/ targets = {} THEN none
        ELSE LET l == CHOOSE x \in targets : TRUE
             IN  IF item.name \notin DOMAIN emitted[l].cats THEN none
                 ELSE ResolveUse(emitted, emitted[l].cats[item.name], fuel - 1)

(* C8: whenever generate completes, every Link it emitted resolves to the
   module of a Fields table, which exposes the canonical fields of the
   category; a Link that does not resolve is never emitted. *)
C8_LinksResolve ==
    pc = "generated" =>
        \A lang \in DOMAIN out : \A c \in DOMAIN out[lang].cats :
            out[lang].cats[c].kind = "use" =>
                LET r == ResolveUse(out, out[lang].cats[c], Cardinality(DOMAIN out))
                IN  /\ r.kind = "mod"
                    /\ DOMAIN r.consts = DOMAIN field_metadata[c]

MixedRun(run) == Len(run) >= 2 /\ ~AllEqual(Tags(run))

(* the object reaches the grouping step and one run of one of its groups
   mixes Integer and textual values *)
HasMixedRun(object) ==
    /\ ReachesGrouping(object)
    /\ \E g \in Range(GroupByKey(object.values)) : \E r \in Range(g[2]) : MixedRun(r)

(* C9: when a group of an object that reaches the grouping step has a run of
   two or more values mixing Integer and textual values, CodeGenerator::new
   never returns, and the walk over that locale never gets past the object,
   so no table is inserted for it. *)
C9_MixedRunAborts ==
    \A lang \in DOMAIN objects : \A n \in DOMAIN objects[lang] :
        HasMixedRun(objects[lang][n]) =>
            /\ pc \notin {"second", "done", "generated", "gen_panic"}
            /\ \A i \in DOMAIN visited :
                   visited[i] = lang => (cur = lang /\ oi <= n)

(* the fold reached the mixed group and panicked there *)
C9_Witness ==
    /\ pc = "panic"
    /\ groups # <<>>
    /\ \E r \in Range(Head(groups)[2]) : MixedRun(r)
    /\ fields # <<>>

-----------------------------------------------------------------------------
(* parser.rs: the nom combinators, on a string of characters.  A result is
   [k, rest, val]: k = "ok" (Ok((rest, val))), "err" (Err::Error, which alt,
   opt and many0 recover from) or "fail" (Err::Failure, raised by cut). *)

Ok(rest, val) == [k |-> "ok", rest |-> rest, val |-> val]
Err(at) == [k |-> "err", rest |-> at, val |-> <<>>]
Fail(at) == [k |-> "fail", rest |-> at, val |-> <<>>]

(* take_while: the length of the longest prefix of s made of characters in
   set, and of characters not in set *)
PrefixIn(s, set) ==
    LET stop == {n \in DOMAIN s : s[n] \notin set}
    IN  IF stop = {} THEN Len(s) ELSE (CHOOSE n \in stop : \A m \in stop : n <= m) - 1

PrefixNotIn(s, set) ==
    LET stop == {n \in DOMAIN s : s[n] \in set}
    IN  IF stop = {} THEN Len(s) ELSE (CHOOSE n \in stop : \A m \in stop : n <= m) - 1

(* the escape character of a file without preamble: '\0' *)
NUL == "NUL"

Spaces == {" ", "\t"}
Multispaces == {" ", "\t", "\r", "\n"}
HexDigits == {"0", "1", "2", "3", "4", "5", "6", "7", "8", "9", "a", "b", "c", "d", "e", "f", "A", "B", "C", "D", "E", "F"}
KeyChars == {"a", "b", "c", "d", "e", "f", "g", "h", "i", "j", "k", "l", "m", "n", "o", "p", "q", "r", "s", "t", "u", "v", "w", "x", "y", "z", "0", "1", "2", "3", "4", "5", "6", "7", "8", "9", "_", "-"}
HeadChars == {"A", "B", "C", "D", "E", "F", "G", "H", "I", "J", "K", "L", "M", "N", "O", "P", "Q", "R", "S", "T", "U", "V", "W", "X", "Y", "Z", "_"}

IsSpace(c) == c \in Spaces
IsMultispace(c) == c \in Multispaces

multispace0(i) == Drop(i, PrefixIn(i, Multispaces))

(* character::complete::not_line_ending: up to the first \n or \r\n; an
   error when a \r is not followed by \n *)
not_line_ending(i) ==
    LET n == PrefixNotIn(i, {"\r", "\n"})
    IN  IF n < Len(i) /\ i[n + 1] = "\r" /\ ~StartsWith(Drop(i, n), <<"\r", "\n">>)
        THEN Err(i)
        ELSE Ok(Drop(i, n), Take(i, n))

RECURSIVE sp(_, _, _)
sp(i, escape_char, comment_char) ==
    IF i = <<>> THEN i
    ELSE IF IsSpace(i[1]) THEN sp(Drop(i, PrefixIn(i, Spaces)), escape_char, comment_char)
    ELSE IF i[1] = comment_char
    THEN sp(Drop(Tail(i), PrefixNotIn(Tail(i), {"\n", "\r", escape_char})),
            escape_char, comment_char)
    ELSE IF i[1] = escape_char /\ Len(i) >= 2 THEN sp(Drop(i, 2), escape_char, comment_char)
    ELSE i

RECURSIVE sp_comment(_, _)
sp_comment(i, comment_char) ==
    IF i = <<>> THEN i
    ELSE IF i[1] = comment_char /\ not_line_ending(Tail(i)).k = "ok"
    THEN sp_comment(not_line_ending(Tail(i)).rest, comment_char)
    ELSE IF IsMultispace(i[1])
    THEN sp_comment(Drop(i, PrefixIn(i, Multispaces)), comment_char)
    ELSE i

IntegerChars == {"-", "0", "1", "2", "3", "4", "5", "6", "7", "8", "9"}

integer(i) ==
    LET n == PrefixIn(i, IntegerChars)
    IN  IF n = 0 THEN Err(i) ELSE Ok(Drop(i, n), Take(i, n))

RECURSIVE DigitsValue(_, _)
DigitsValue(digits, radix) ==
    IF digits = <<>> THEN 0
    ELSE LET d == digits[Len(digits)]
             v == IF IsDigit(d) THEN CharCode[d] - 48
                  ELSE IF CharCode[d] >= 97 THEN CharCode[d] - 87
                  ELSE CharCode[d] - 55
         IN  DigitsValue(Take(digits, Len(digits) - 1), radix) * radix + v

StripZeros(digits) == Drop(digits, PrefixIn(digits, {"0"}))

I64MaxDigits == <<"9", "2", "2", "3", "3", "7", "2", "0", "3", "6", "8", "5", "4", "7", "7",
                  "5", "8", "0", "7">>
I64MinDigits == <<"9", "2", "2", "3", "3", "7", "2", "0", "3", "6", "8", "5", "4", "7", "7",
                  "5", "8", "0", "8">>

(* i64::from_str_radix(s, 10) on a non-empty string of '-' and digits: an
   error for a sign without digits, a '-' after the first character, or a
   value outside the 64-bit range *)
i64_from_str(s) ==
    LET negative == s[1] = "-"
        digits == IF negative THEN Tail(s) ELSE s
        sig == StripZeros(digits)
        limit == IF negative THEN I64MinDigits ELSE I64MaxDigits
    IN  IF digits = <<>> \/ \E n \in DOMAIN digits : ~IsDigit(digits[n])
        THEN [ok |-> FALSE, n |-> 0]
        ELSE IF Len(sig) > Len(limit) \/ (Len(sig) = Len(limit) /\ ~StrLeq(sig, limit))
        THEN [ok |-> FALSE, n |-> 0]
        ELSE [ok |-> TRUE,
              n |-> IF negative THEN 0 - DigitsValue(sig, 10) ELSE DigitsValue(sig, 10)]

parse_key(i) ==
    LET n == PrefixIn(i, KeyChars)
        m == IF i = <<>> THEN 0 ELSE PrefixNotIn(Tail(i), {">"})
    IN  IF n > 0 THEN Ok(Drop(i, n), Take(i, n))
        ELSE IF i # <<>> /\ i[1] = "<" /\ m > 0 /\ Len(i) >= m + 2
        THEN Ok(Drop(i, m + 2), SubSeq(i, 2, m + 1))
        ELSE IF StartsWith(i, <<".", ".">>) THEN Ok(Drop(i, 2), <<".", ".">>)
        ELSE IF StartsWith(i, <<"U", "N", "D", "E", "F", "I", "N", "E", "D">>)
        THEN Ok(Drop(i, 9), <<"U", "N", "D", "E", "F", "I", "N", "E", "D">>)
        ELSE Err(i)

RawStops == {" ", "\t", "\r", "\n", ";"}

RECURSIVE parse_raw_fold(_, _, _, _)
parse_raw_fold(i, escape_char, comment_char, acc) ==
    LET n == PrefixNotIn(i, RawStops \cup {comment_char, escape_char})
    IN  IF n > 0
        THEN parse_raw_fold(Drop(i, n), escape_char, comment_char, acc \o Take(i, n))
        ELSE IF i # <<>> /\ i[1] = escape_char /\ Len(i) >= 2
        THEN parse_raw_fold(Drop(i, 2), escape_char, comment_char, Append(acc, i[2]))
        ELSE Ok(i, acc)

(* fold_many1: at least one piece *)
parse_raw_many1(i, r) == IF r.rest = i THEN Err(i) ELSE r

parse_raw(i, escape_char, comment_char) ==
    parse_raw_many1(i, parse_raw_fold(i, escape_char, comment_char, <<>>))

(* std::char::from_u32 of a code point that is a char *)
CharFromU32(n) ==
    IF \E c \in Chars : CharCode[c] = n THEN CharOf(n) ELSE "U+" \o ToString(n)

(* u32::from_str_radix(x, 16) followed by char::from_u32: no value when the
   number does not fit 32 bits, is a surrogate or is above 0x10FFFF *)
CodePoint(hex) ==
    LET sig == StripZeros(hex)
        n == DigitsValue(sig, 16)
    IN  IF Len(sig) > 6 THEN [ok |-> FALSE, c |-> ""]
        ELSE IF n > 1114111 \/ (n >= 55296 /\ n <= 57343) THEN [ok |-> FALSE, c |-> ""]
        ELSE [ok |-> TRUE, c |-> CharFromU32(n)]

(* one <Uhhhh> escape at the head of i: [ok, c, len] *)
unicode_escape(i) ==
    LET h == PrefixIn(Drop(i, 2), HexDigits)
        cp == CodePoint(SubSeq(i, 3, h + 2))
    IN  IF StartsWith(i, <<"<", "U">>) /\ h > 0 /\ Len(i) >= h + 3 /\ i[h + 3] = ">" /\ cp.ok
        THEN [ok |-> TRUE, c |-> cp.c, len |-> h + 3]
        ELSE [ok |-> FALSE, c |-> "", len |-> 0]

(* many0 of literal text or a <Uhhhh> escape, joined; many0 stops at the first
   piece that is neither and returns what it has, the caller (map_parser)
   discarding the rest *)
RECURSIVE unescape_unicode(_)
unescape_unicode(i) ==
    LET n == PrefixNotIn(i, {"<"})
        u == unicode_escape(i)
    IN  IF i = <<>> THEN <<>>
        ELSE IF n > 0 \/ u.ok
        THEN (IF n > 0 THEN Take(i, n) ELSE <<u.c>>)
                \o unescape_unicode(Drop(i, IF n > 0 THEN n ELSE u.len))
        ELSE <<>>

(* the piece the alt of parse_str takes at the head of i: [len, text], len = 0
   when no alternative matches *)
parse_str_piece(i, escape_char) ==
    LET n == PrefixNotIn(i, {escape_char, "\""})
    IN  IF n > 0 THEN [len |-> n, text |-> Take(i, n)]
        ELSE IF i # <<>> /\ i[1] = escape_char /\ Len(i) >= 2 /\ i[2] = "\n"
        THEN [len |-> 2, text |-> <<>>]
        ELSE IF i # <<>> /\ i[1] = escape_char /\ Len(i) >= 2
        THEN [len |-> 2, text |-> <<i[2]>>]
        ELSE [len |-> 0, text |-> <<>>]

RECURSIVE parse_str_fold(_, _, _)
parse_str_fold(i, escape_char, acc) ==
    LET piece == parse_str_piece(i, escape_char)
    IN  IF piece.len = 0 THEN Ok(i, acc)
        ELSE parse_str_fold(Drop(i, piece.len), escape_char,
                            acc \o unescape_unicode(piece.text))

parse_str(i, escape_char) == parse_str_fold(i, escape_char, <<>>)

(* cut(terminated(parse_str, char('"'))) *)
string_close(r) ==
    IF r.rest # <<>> /\ r.rest[1] = "\"" THEN Ok(Tail(r.rest), r.val) ELSE Fail(r.rest)

string(i, escape_char) ==
    IF StartsWith(i, <<"\"", "\"">>) THEN Ok(Drop(i, 2), <<>>)
    ELSE IF i # <<>> /\ i[1] = "\"" THEN string_close(parse_str(Tail(i), escape_char))
    ELSE Err(i)

(* map_res(integer, i64::from_str_radix): an error when the digits and signs
   taken are not a 64-bit number *)
map_res_i64_never(int, num) == Err(int.rest)

map_res_i64(int, num) ==
    IF num.ok THEN Ok(int.rest, IntegerValue(num.n)) ELSE Err(int.rest)

map_res_integer_of(int) ==
    IF int.k = "ok" THEN map_res_i64(int, i64_from_str(int.val)) ELSE int

map_res_integer(i) == map_res_integer_of(integer(i))

(* alt((integer, string, raw)), alternative by alternative; i is the input
   of value, j the input after sp *)
value_raw(i, raw) ==
    IF raw.k = "ok" THEN Ok(raw.rest, RawValue(raw.val)) ELSE Err(i)

value_string(i, j, str, escape_char, comment_char) ==
    IF str.k = "ok" THEN Ok(str.rest, StringValue(str.val))
    ELSE IF str.k = "fail" THEN str
    ELSE value_raw(i, parse_raw(j, escape_char, comment_char))

value_integer(i, j, int, escape_char, comment_char) ==
    IF int.k = "ok" THEN int
    ELSE value_string(i, j, string(j, escape_char), escape_char, comment_char)

value_alt(i, j, escape_char, comment_char) ==
    value_integer(i, j, map_res_integer(j), escape_char, comment_char)

value(i, escape_char, comment_char) ==
    value_alt(i, sp(i, escape_char, comment_char), escape_char, comment_char)

(* separated_list(one_of("; \t"), opt(value)): acc holds the Some values,
   which is what object keeps.  first: no element taken yet, where an
   opt(value) that consumed nothing is an error; afterwards the list ends
   before a character that is not a separator, and a separator with no value
   after it is consumed *)
RECURSIVE separated_list_next(_, _, _, _, _, _)
separated_list_loop(i, escape_char, comment_char, acc) ==
    IF i = <<>> \/ i[1] \notin {";", " ", "\t"} THEN Ok(i, acc)
    ELSE separated_list_next(Tail(i), value(Tail(i), escape_char, comment_char),
                             FALSE, escape_char, comment_char, acc)

separated_list_next(i, r, first, escape_char, comment_char, acc) ==
    IF r.k = "fail" THEN r
    ELSE IF r.k = "err"
    THEN (IF first THEN Err(i) ELSE separated_list_loop(i, escape_char, comment_char, acc))
    ELSE separated_list_loop(r.rest, escape_char, comment_char, Append(acc, r.val))

separated_list(i, escape_char, comment_char) ==
    separated_list_next(i, value(i, escape_char, comment_char), TRUE,
                        escape_char, comment_char, <<>>)

(* many1(alt((space1, preceded(char(escape_char), take(1))))) *)
RECURSIVE key_separator_loop(_, _)
key_separator_loop(i, escape_char) ==
    IF i # <<>> /\ IsSpace(i[1])
    THEN key_separator_loop(Drop(i, PrefixIn(i, Spaces)), escape_char)
    ELSE IF i # <<>> /\ i[1] = escape_char /\ Len(i) >= 2
    THEN key_separator_loop(Drop(i, 2), escape_char)
    ELSE i

key_separator_many1(i, j) == IF j = i THEN Err(i) ELSE Ok(j, <<>>)

key_separator(i, escape_char) == key_separator_many1(i, key_separator_loop(i, escape_char))

(* alt((separated_pair(key, separator, list), key alone)): the second
   alternative is taken when the separator or the list is an error *)
key_value_list(key, list) ==
    IF list.k = "ok" THEN Ok(list.rest, <<key.val, list.val>>)
    ELSE IF list.k = "fail" THEN list
    ELSE Ok(key.rest, <<key.val, <<>> >>)

key_value_separator(key, sep, escape_char, comment_char) ==
    IF sep.k = "ok"
    THEN key_value_list(key, separated_list(sep.rest, escape_char, comment_char))
    ELSE Ok(key.rest, <<key.val, <<>> >>)

key_value_key(i, key, escape_char, comment_char) ==
    IF key.k = "ok"
    THEN key_value_separator(key, key_separator(key.rest, escape_char),
                             escape_char, comment_char)
    ELSE Err(i)

key_value(i, escape_char, comment_char) ==
    key_value_key(i, parse_key(sp_comment(i, comment_char)), escape_char, comment_char)

RECURSIVE many0_key_value_next(_, _, _, _, _)
many0_key_value(i, escape_char, comment_char, acc) ==
    many0_key_value_next(i, key_value(i, escape_char, comment_char),
                         escape_char, comment_char, acc)

many0_key_value_next(i, r, escape_char, comment_char, acc) ==
    IF r.k = "ok"
    THEN many0_key_value(r.rest, escape_char, comment_char, Append(acc, r.val))
    ELSE IF r.k = "fail" THEN r
    ELSE Ok(i, acc)

parse_object_head(i) ==
    LET n == PrefixIn(i, HeadChars)
    IN  IF n = 0 THEN Err(i) ELSE Ok(Drop(i, n), Take(i, n))

EndTag(name) == <<"E", "N", "D", " ">> \o name

(* the three steps of object: the head, the fields, the END tag *)
object_end(name, values, close) ==
    IF StartsWith(close, EndTag(name))
    THEN Ok(multispace0(Drop(close, Len(EndTag(name)))), Object(name, values))
    ELSE Err(close)

object_values(head, values, comment_char) ==
    IF values.k = "ok"
    THEN object_end(head.val, values.val, sp_comment(values.rest, comment_char))
    ELSE values

object_head(i, head, escape_char, comment_char) ==
    IF head.k = "ok"
    THEN object_values(head,
                       many0_key_value(multispace0(head.rest), escape_char,
                                       comment_char, <<>>),
                       comment_char)
    ELSE Err(i)

object(i, escape_char, comment_char) ==
    object_head(i, parse_object_head(sp_comment(i, comment_char)),
                escape_char, comment_char)

TagCommentChar == <<"c", "o", "m", "m", "e", "n", "t", "_", "c", "h", "a", "r">>
TagEscapeChar == <<"e", "s", "c", "a", "p", "e", "_", "c", "h", "a", "r">>

(* one pass of the loop of parse_special_chars: the pair (k, c) *)
special_char(i) ==
    LET j == multispace0(i)
        k == IF StartsWith(j, TagCommentChar) THEN TagCommentChar
             ELSE IF StartsWith(j, TagEscapeChar) THEN TagEscapeChar
             ELSE <<>>
        after == Drop(j, Len(k))
        n == PrefixIn(after, Spaces)
    IN  IF k = <<>> \/ n = 0 \/ Len(after) < n + 1 THEN Err(i)
        ELSE Ok(Drop(after, n + 1), <<k, after[n + 1]>>)

(* match k: chars is (comment_char, escape_char) *)
set_special_char(chars, kc) ==
    IF kc[1] = TagCommentChar THEN <<kc[2], chars[2]>> ELSE <<chars[1], kc[2]>>

special_chars_second(i, first, second) ==
    IF second.k = "ok"
    THEN Ok(second.rest, set_special_char(set_special_char(<<"%", "/">>, first.val),
                                          second.val))
    ELSE Err(i)

special_chars_first(i, first) ==
    IF first.k = "ok" THEN special_chars_second(i, first, special_char(first.rest))
    ELSE Err(i)

parse_special_chars(i) == special_chars_first(i, special_char(i))

-----------------------------------------------------------------------------
(* Inputs of the parser: locale files of up to MaxLines lines *)

MaxLines == 4

LineCommentChar == <<"c", "o", "m", "m", "e", "n", "t", "_", "c", "h", "a", "r", " ", "%">>
LineEscapeChar == <<"e", "s", "c", "a", "p", "e", "_", "c", "h", "a", "r", " ", "/">>
LineLC_A == <<"L", "C", "_", "A">>
LineLC_AB == <<"L", "C", "_", "A", "B">>
LineB == <<"B">>
LineEndLC_A == <<"E", "N", "D", " ", "L", "C", "_", "A">>
LineEndLC_AB == <<"E", "N", "D", " ", "L", "C", "_", "A", "B">>
LineEndB == <<"E", "N", "D", " ", "B">>
LineField == <<"k", " ", "1", ";", "\"", "a", "\"">>
LineComment == <<"%", " ", "c">>

LinePool ==
    {LineCommentChar, LineEscapeChar, LineLC_A, LineLC_AB, LineB,
     LineEndLC_A, LineEndLC_AB, LineEndB, LineField, LineComment}

RECURSIVE JoinLines(_)
JoinLines(ls) == IF ls = <<>> THEN <<>> ELSE Head(ls) \o <<"\n">> \o JoinLines(Tail(ls))

-----------------------------------------------------------------------------
(* parse_locale as a state machine *)

ParseInit ==
    /\ \E n \in 0..MaxLines : \E ls \in [1..n -> LinePool] : input = JoinLines(ls)
    /\ remaining = input
    /\ special_chars = <<>>
    /\ parsed = <<>>
    /\ ppc = "start"
    /\ objects = <<>>
    /\ pc = "idle"
    /\ todo = {}
    /\ cur = <<>>
    /\ oi = 0
    /\ groups = <<>>
    /\ fields = <<>>
    /\ by_language = <<>>
    /\ field_metadata = <<>>
    /\ normalized_langs = <<>>
    /\ second_todo = {}
    /\ visited = <<>>
    /\ out = <<>>
    /\ variants = <<>>
    /\ MainIdle
    /\ ValueIdle

(* opt(parse_special_chars) and the defaults of a file without preamble *)
unwrap_special_chars(r) ==
    IF r.k = "ok" THEN r ELSE Ok(remaining, <<"#", NUL>>)

SetSpecialChars(r) ==
    /\ remaining' = r.rest
    /\ special_chars' = r.val

ParseSpecialChars ==
    /\ ppc = "start"
    /\ SetSpecialChars(unwrap_special_chars(parse_special_chars(remaining)))
    /\ ppc' = "loop"
    /\ UNCHANGED <<input, parsed>>
    /\ UNCHANGED <<gvars, mvars, rvars>>

(* an iteration of the loop: objects.push(o) when object succeeds; when it
   fails, what is left must be blank lines and comments,
   all_consuming(sp_comment), or the parse is an error *)
PushObject(r) ==
    /\ r.k = "ok"
    /\ remaining' = r.rest
    /\ parsed' = Append(parsed, r.val)
    /\ UNCHANGED ppc

TrailingComments(r) ==
    /\ r.k # "ok"
    /\ IF sp_comment(remaining, special_chars[1]) = <<>>
       THEN /\ remaining' = <<>>
            /\ ppc' = "ok"
       ELSE /\ remaining' = remaining
            /\ ppc' = "err"
    /\ UNCHANGED parsed

ParseObject ==
    /\ ppc = "loop"
    /\ remaining # <<>>
    /\ PushObject(object(remaining, special_chars[2], special_chars[1]))
    /\ UNCHANGED <<input, special_chars>>
    /\ UNCHANGED <<gvars, mvars, rvars>>

ParseTrailing ==
    /\ ppc = "loop"
    /\ remaining # <<>>
    /\ TrailingComments(object(remaining, special_chars[2], special_chars[1]))
    /\ UNCHANGED <<input, special_chars>>
    /\ UNCHANGED <<gvars, mvars, rvars>>

(* the loop ends with the text: Ok((i, objects)) *)
ParseReturn ==
    /\ ppc = "loop"
    /\ remaining = <<>>
    /\ ppc' = "ok"
    /\ UNCHANGED <<input, remaining, special_chars, parsed>>
    /\ UNCHANGED <<gvars, mvars, rvars>>

ParseNext ==
    \/ ParseSpecialChars
    \/ ParseObject
    \/ ParseTrailing
    \/ ParseReturn

vars == <<gvars, pvars, mvars, rvars>>

ParseSpec == ParseInit /\ [][ParseNext]_vars

-----------------------------------------------------------------------------
(* The lines of a text, for statements about its categories *)

RECURSIVE SplitLines(_)
SplitLines(text) ==
    LET n == PrefixNotIn(text, {"\n"})
    IN  IF text = <<>> THEN <<>>
        ELSE IF n = Len(text) THEN <<text>>
        ELSE <<Take(text, n)>> \o SplitLines(Drop(text, n + 1))

(* a line that is a category name, and a line that is END and a name *)
IsHeadLine(l) == l # <<>> /\ parse_object_head(l).k = "ok" /\ parse_object_head(l).rest = <<>>
IsEndLine(l) == StartsWith(l, EndTag(<<>>)) /\ IsHeadLine(Drop(l, 4))

(* the pairs <<N, M>>: a category opened as N whose next END line names M *)
Closings(text) ==
    LET ls == SplitLines(text)
    IN  { <<ls[a], Drop(ls[b], 4)>> : <<a, b>> \in
            { ab \in (DOMAIN ls) \X (DOMAIN ls) :
                /\ ab[1] < ab[2]
                /\ IsHeadLine(ls[ab[1]])
                /\ IsEndLine(ls[ab[2]])
                /\ \A m \in (ab[1] + 1)..(ab[2] - 1) : ~IsHeadLine(ls[m]) /\ ~IsEndLine(ls[m]) } }

(* C10: whenever a category opened with name N is closed by a marker END M
   with M different from N, the case of N a proper prefix of M included,
   parsing the text fails *)
C10_MismatchedEndFails ==
    (\E nm \in Closings(input) : nm[1] # nm[2]) => ppc # "ok"

-----------------------------------------------------------------------------
(* Inputs of the parser: one LC_TIME category of up to MaxFields field lines,
   after a preamble and before a tail *)

MaxFields == 2

PreambleNone == <<>>
PreambleCommentEscape == <<"c", "o", "m", "m", "e", "n", "t", "_", "c", "h", "a", "r", " ", "%", "\n", "e", "s",
      "c", "a", "p", "e", "_", "c", "h", "a", "r", " ", "/", "\n">>
PreambleEscapeComment == <<"e", "s", "c", "a", "p", "e", "_", "c", "h", "a", "r", " ", "/", "\n", "c", "o", "m",
      "m", "e", "n", "t", "_", "c", "h", "a", "r", " ", "%", "\n">>
PreambleBlankLines == <<"\n", "c", "o", "m", "m", "e", "n", "t", "_", "c", "h", "a", "r", " ", "%", "\n", "\n",
      "e", "s", "c", "a", "p", "e", "_", "c", "h", "a", "r", " ", "/", "\n">>
PreambleCommentLine == <<"%", " ", "c", "\n", "c", "o", "m", "m", "e", "n", "t", "_", "c", "h", "a", "r", " ",
      "%", "\n", "e", "s", "c", "a", "p", "e", "_", "c", "h", "a", "r", " ", "/", "\n">>
PreambleHashCommentLine == <<"#", " ", "c", "\n">> \o PreambleCommentEscape
PreambleCommentOnly == <<"c", "o", "m", "m", "e", "n", "t", "_", "c", "h", "a", "r", " ", "%", "\n">>

Preambles ==
    {PreambleNone, PreambleCommentEscape, PreambleEscapeComment, PreambleBlankLines,
     PreambleCommentLine, PreambleHashCommentLine, PreambleCommentOnly}

FieldDFmt == <<"d", "_", "f", "m", "t", " ", "\"", "%", "d", "/", "%", "m", "/", "%", "y", "\"">>
FieldFirstWeekday == <<"f", "i", "r", "s", "t", "_", "w", "e", "e", "k", "d", "a", "y", " ", "2">>
FieldUnicodeA == <<"k", " ", "\"", "<", "U", "0", "0", "4", "1", ">", "\"">>
FieldUnicodeEAcute == <<"k", " ", "\"", "b", "<", "U", "0", "0", "E", "9", ">", "c", "\"">>
FieldUnicodeNotHex == <<"k", " ", "\"", "b", "<", "U", "G", "G", "G", "G", ">", "c", "\"">>
FieldUnicodeSurrogate == <<"k", " ", "\"", "b", "<", "U", "D", "8", "0", "0", ">", "c", "\"">>
FieldUnterminated == <<"k", " ", "\"", "b">>
FieldNegative == <<"k", " ", "-", "5">>
FieldOverflow == <<"k", " ", "9", "9", "9", "9", "9", "9", "9", "9", "9", "9", "9", "9", "9", "9", "9", "9",
      "9", "9", "9", "9">>
FieldNegativeOverflow == <<"k", " ", "-", "9", "2", "2", "3", "3", "7", "2", "0", "3", "6", "8", "5", "4", "7", "7",
      "5", "8", "0", "9">>

FieldPool ==
    {FieldDFmt, FieldFirstWeekday, FieldUnicodeA, FieldUnicodeEAcute, FieldUnicodeNotHex,
     FieldUnicodeSurrogate, FieldUnterminated, FieldNegative, FieldOverflow,
     FieldNegativeOverflow}

TailNone == <<>>
TailNewline == <<"\n">>
TailComment == <<"\n", "%", " ", "c", "\n">>
TailJunk == <<"\n", "j", "u", "n", "k", "\n">>

Tails == {TailNone, TailNewline, TailComment, TailJunk}

FileText(preamble, lines, tail) ==
    preamble \o LC_TIME \o <<"\n">> \o JoinLines(lines) \o EndTag(LC_TIME) \o tail

FileInit ==
    /\ \E preamble \in Preambles : \E n \in 0..MaxFields : \E lines \in [1..n -> FieldPool] :
       \E tail \in Tails : input = FileText(preamble, lines, tail)
    /\ remaining = input
    /\ special_chars = <<>>
    /\ parsed = <<>>
    /\ ppc = "start"
    /\ objects = <<>>
    /\ pc = "idle"
    /\ todo = {}
    /\ cur = <<>>
    /\ oi = 0
    /\ groups = <<>>
    /\ fields = <<>>
    /\ by_language = <<>>
    /\ field_metadata = <<>>
    /\ normalized_langs = <<>>
    /\ second_todo = {}
    /\ visited = <<>>
    /\ out = <<>>
    /\ variants = <<>>
    /\ MainIdle
    /\ ValueIdle

FileSpec == FileInit /\ [][ParseNext]_vars

(* parse_locale has returned *)
ParseEnded == ppc \in {"ok", "err"}

-----------------------------------------------------------------------------
(* Example 1 of the specification *)

Example1 == FileText(PreambleCommentEscape, <<FieldDFmt, FieldFirstWeekday>>, TailNone)

KeyDFmt == <<"d", "_", "f", "m", "t">>
KeyFirstWeekday == <<"f", "i", "r", "s", "t", "_", "w", "e", "e", "k", "d", "a", "y">>

Example1Fields(d_fmt) ==
    << <<KeyDFmt, <<StringValue(d_fmt)>> >>, <<KeyFirstWeekday, <<IntegerValue(2)>> >> >>

(* C11 as stated: parsing Example 1 yields exactly one category LC_TIME whose
   fields, in source order, are d_fmt = [String("%d/%m/%y")] and
   first_weekday = [Integer(2)] *)
C11_Example1AsStated ==
    (input = Example1 /\ ParseEnded) =>
        (ppc = "ok" /\ parsed = <<Object(LC_TIME, Example1Fields(<<"%", "d", "/", "%", "m", "/", "%", "y">>))>>)

(* C11: parsing Example 1 yields exactly one category LC_TIME whose fields, in
   source order, are d_fmt = [String("%d%m%y")] and first_weekday =
   [Integer(2)]: the file declares / as its escape character, so each / of
   the quoted string is consumed and splices in the % after it *)
C11_Example1 ==
    (input = Example1 /\ ParseEnded) =>
        (ppc = "ok" /\ parsed = <<Object(LC_TIME, Example1Fields(<<"%", "d", "%", "m", "%", "y">>))>>)

C11_Witness == input = Example1 /\ ppc = "ok" /\ Len(parsed) = 1

-----------------------------------------------------------------------------
(* The field lines of a text made by FileText: the lines between the LC_TIME
   line and the END LC_TIME line; when the parse succeeds, the n-th of them
   is the n-th field of the category *)

IndexOfLine(ls, l) == CHOOSE n \in DOMAIN ls : ls[n] = l /\ \A m \in 1..(n - 1) : ls[m] # l

FieldLines(text) ==
    LET ls == SplitLines(text)
    IN  SubSeq(ls, IndexOfLine(ls, LC_TIME) + 1, IndexOfLine(ls, EndTag(LC_TIME)) - 1)

HasFieldLine(text, l) == \E n \in DOMAIN FieldLines(text) : FieldLines(text)[n] = l

(* the field parsed from every field line l of the input is <<key, values>>;
   said of the inputs whose quotes are closed on their own line, where a line
   is a field *)
FieldLineParsesTo(l, key, values) ==
    \A n \in DOMAIN FieldLines(input) :
        (FieldLines(input)[n] = l /\ ~HasFieldLine(input, FieldUnterminated)) =>
            /\ Len(parsed) = 1
            /\ Len(parsed[1].values) = Len(FieldLines(input))
            /\ parsed[1].values[n] = <<key, values>>

EAcute == CharFromU32(233)

(* C12: inside a quoted string an escape <U + hex digits + > naming a valid
   code point decodes to that single character, and an escape of that shape
   with digits that are not hexadecimal, or naming an invalid code point,
   makes the parse of the file fail: the string is never accepted with text
   dropped or substituted *)
C12_UnicodeEscapes ==
    /\ ppc = "ok" => FieldLineParsesTo(FieldUnicodeA, KeyK, <<StringValue(<<"A">>)>>)
    /\ ppc = "ok" => FieldLineParsesTo(FieldUnicodeEAcute, KeyK,
                                       <<StringValue(<<"b", EAcute, "c">>)>>)
    /\ (HasFieldLine(input, FieldUnicodeNotHex) \/ HasFieldLine(input, FieldUnicodeSurrogate))
            => ppc # "ok"

(* C13: a value token made of an optional leading - and one or more decimal
   digits is always parsed as Integer(n), n its value as a signed 64-bit
   integer, and when the literal does not fit in 64 bits the parse fails
   rather than yielding a value of another kind *)
C13_IntegerTokens ==
    /\ ppc = "ok" => FieldLineParsesTo(FieldNegative, KeyK, <<IntegerValue(0 - 5)>>)
    /\ ppc = "ok" => FieldLineParsesTo(FieldFirstWeekday, KeyFirstWeekday, <<IntegerValue(2)>>)
    /\ (HasFieldLine(input, FieldOverflow) \/ HasFieldLine(input, FieldNegativeOverflow))
            => ppc # "ok"

-----------------------------------------------------------------------------
(* Preambles *)

(* the input begins with preamble p, the category following it *)
HasPreamble(p) == StartsWith(input, p \o LC_TIME)

(* the preamble has been read: the declared characters are in use, and the
   escape character of the file is the one the d_fmt line was read with *)
UsesSpecialChars(comment_char, escape_char, d_fmt) ==
    /\ ppc # "start" => special_chars = <<comment_char, escape_char>>
    /\ ppc = "ok" =>
          FieldLineParsesTo(FieldDFmt, KeyDFmt, <<StringValue(d_fmt)>>)

(* a file with nothing to reject after its preamble: no field lines or the two
   of Example 1, and a tail of blank or comment lines *)
CleanAfter(p) ==
    \E lines \in {<<>>, <<FieldDFmt, FieldFirstWeekday>>} :
        \E tail \in {TailNone, TailNewline, TailComment} : input = FileText(p, lines, tail)

(* C14: the two declarations comment_char c and escape_char c are accepted in
   either order, each optionally preceded by blank lines or comment lines,
   and the declared characters are used for the rest of the file; a file
   without preamble does not fail for that and is read with comment
   character # and no escape character *)
C14_Preamble ==
    /\ \A p \in {PreambleCommentEscape, PreambleEscapeComment, PreambleBlankLines,
                 PreambleCommentLine, PreambleHashCommentLine} :
           /\ HasPreamble(p) => UsesSpecialChars("%", "/", <<"%", "d", "%", "m", "%", "y">>)
           /\ (CleanAfter(p) /\ ParseEnded) => ppc = "ok"
    /\ HasPreamble(PreambleNone) => UsesSpecialChars("#", NUL, <<"%", "d", "/", "%", "m", "/", "%", "y">>)
    /\ (\E lines \in {<<>>, <<FieldDFmt, FieldFirstWeekday>>} :
           \E tail \in {TailNone, TailNewline} : input = FileText(PreambleNone, lines, tail))
          /\ ParseEnded => ppc = "ok"

-----------------------------------------------------------------------------
(* parse: the objects of parse_locale, or an error that carries none *)

parse ==
    IF ppc = "ok" THEN [ok |-> TRUE, objects |-> parsed]
    ELSE [ok |-> FALSE, objects |-> <<>>]

(* The grammar of a locale file by lines: an optional preamble of two
   declarations, then categories, a NAME line, field lines and the END NAME
   line, with blank lines and comment lines anywhere after the preamble *)

IsDeclarationLine(l) ==
    StartsWith(l, TagCommentChar \o <<" ">>) \/ StartsWith(l, TagEscapeChar \o <<" ">>)
IsCommentLine(l, comment_char) == l # <<>> /\ l[1] = comment_char
IsFieldLine(l) == parse_key(l).k = "ok"

(* open is the name of the category the lines are in, <<>> outside of one *)
RECURSIVE CategoryLines(_, _, _)
CategoryLines(ls, open, comment_char) ==
    IF ls = <<>> THEN open = <<>>
    ELSE IF Head(ls) = <<>> \/ IsCommentLine(Head(ls), comment_char)
    THEN CategoryLines(Tail(ls), open, comment_char)
    ELSE IF open = <<>>
    THEN IsHeadLine(Head(ls)) /\ CategoryLines(Tail(ls), Head(ls), comment_char)
    ELSE IF Head(ls) = EndTag(open) THEN CategoryLines(Tail(ls), <<>>, comment_char)
    ELSE IsFieldLine(Head(ls)) /\ CategoryLines(Tail(ls), open, comment_char)

HasPreambleLines(ls) == Len(ls) >= 2 /\ IsDeclarationLine(ls[1]) /\ IsDeclarationLine(ls[2])

(* the texts of ParseSpec declare % when they declare a comment character *)
WellFormed(text) ==
    LET ls == SplitLines(text)
    IN  IF HasPreambleLines(ls) THEN CategoryLines(SubSeq(ls, 3, Len(ls)), <<>>, "%")
        ELSE CategoryLines(ls, <<>>, "#")

(* C15: parse returns Ok only when the whole input is an optional preamble
   followed by complete categories and runs of blank and comment lines; when
   text remains that is neither, parse returns an error, and none of the
   categories parsed before that point *)
C15_OkOnlyWhenConsumed ==
    (ParseEnded /\ ~WellFormed(input)) => (~parse.ok /\ parse.objects = <<>>)

-----------------------------------------------------------------------------
(* parser.rs: parse_lang, on a file name.  An Option<&str> that is None is
   <<>>; alpha1 never yields the empty string *)

Alphabetic ==
    {"a", "b", "c", "d", "e", "f", "g", "h", "i", "j", "k", "l", "m", "n", "o", "p", "q",
     "r", "s", "t", "u", "v", "w", "x", "y", "z", "A", "B", "C", "D", "E", "F", "G", "H",
     "I", "J", "K", "L", "M", "N", "O", "P", "Q", "R", "S", "T", "U", "V", "W", "X", "Y",
     "Z"}

Translit == <<"t", "r", "a", "n", "s", "l", "i", "t">>

alpha1(i) ==
    LET n == PrefixIn(i, Alphabetic)
    IN  IF n = 0 THEN Err(i) ELSE Ok(Drop(i, n), Take(i, n))

verify_accepts_translit(r) == r

(* verify(alpha1, |x| x != "translit") *)
verify(r) == IF r.k = "ok" /\ r.val = Translit THEN Err(r.rest) ELSE r

(* opt(preceded(char(c), alpha1)): None and the input untouched on error *)
opt_preceded_alpha1(i, c) ==
    IF i # <<>> /\ i[1] = c /\ alpha1(Tail(i)).k = "ok" THEN alpha1(Tail(i)) ELSE Ok(i, <<>>)

LangError == [ok |-> FALSE, lang |-> <<>>, country |-> <<>>, variant |-> <<>>]

(* all_consuming on the variant, and the tuple *)
inner_parser_variant(lang, country, variant) ==
    IF variant.rest = <<>>
    THEN [ok |-> TRUE, lang |-> lang.val, country |-> country.val, variant |-> variant.val]
    ELSE LangError

inner_parser_country(lang, country) ==
    inner_parser_variant(lang, country, opt_preceded_alpha1(country.rest, "@"))

inner_parser_lang(lang) ==
    IF lang.k = "ok" THEN inner_parser_country(lang, opt_preceded_alpha1(lang.rest, "_"))
    ELSE LangError

parse_lang(i) == inner_parser_lang(verify(alpha1(i)))

-----------------------------------------------------------------------------
(* parser.rs: parse_locale and parse as functions of the text *)

RECURSIVE parse_locale_match(_, _, _, _)
parse_locale_loop(i, chars, acc) ==
    IF i = <<>> THEN Ok(i, acc)
    ELSE parse_locale_match(i, object(i, chars[2], chars[1]), chars, acc)

parse_locale_match(i, r, chars, acc) ==
    IF r.k = "ok" THEN parse_locale_loop(r.rest, chars, Append(acc, r.val))
    ELSE IF sp_comment(i, chars[1]) = <<>> THEN Ok(<<>>, acc)
    ELSE Err(i)

parse_locale_opt(i, r) ==
    IF r.k = "ok" THEN parse_locale_loop(r.rest, r.val, <<>>)
    ELSE parse_locale_loop(i, <<"#", NUL>>, <<>>)

parse_locale(i) == parse_locale_opt(i, parse_special_chars(i))

parse_of(r) ==
    IF r.k = "ok" THEN [ok |-> TRUE, objects |-> r.val] ELSE [ok |-> FALSE, objects |-> <<>>]

parse_text(text) == parse_of(parse_locale(text))

-----------------------------------------------------------------------------
(* main.rs: validate_and_fix *)

KeyTFmtAmpm == <<"t", "_", "f", "m", "t", "_", "a", "m", "p", "m">>
KeyInsert == <<"i", "n", "s", "e", "r", "t">>
KeyAmPm == <<"a", "m", "_", "p", "m">>
KeyTFmt == <<"t", "_", "f", "m", "t">>
KeyDTFmt == <<"d", "_", "t", "_", "f", "m", "t">>
PosixTFmtAmpm == <<"%", "l", ":", "%", "M", ":", "%", "S", " ", "%", "p">>

IsStrings(vec, n) == Len(vec) = n /\ \A m \in DOMAIN vec : vec[m].tag = "String"

(* the loop over object.values of validate_and_fix_t_fmt_ampm: the last am_pm
   entry made of two Strings decides am_pm_empty *)
found_t_fmt_ampm(values) ==
    \E n \in DOMAIN values : values[n][1] \in {KeyTFmtAmpm, KeyCopy, KeyInsert}

(* am_pm_empty left at its initial false *)
am_pm_empty_never(values) == FALSE

am_pm_empty(values) ==
    LET at == {n \in DOMAIN values : values[n][1] = KeyAmPm /\ IsStrings(values[n][2], 2)}
        last == CHOOSE n \in at : \A m \in at : m <= n
    IN  at # {} /\ values[last][2][1].s = <<>> /\ values[last][2][2].s = <<>>

fix_t_fmt_ampm(obj) ==
    IF obj.name # LC_TIME \/ found_t_fmt_ampm(obj.values) THEN obj
    ELSE Object(obj.name,
                Append(obj.values,
                       <<KeyTFmtAmpm,
                         <<StringValue(IF am_pm_empty(obj.values) THEN <<>>
                                       ELSE PosixTFmtAmpm)>> >>))

validate_and_fix_t_fmt_ampm(objs) == [n \in DOMAIN objs |-> fix_t_fmt_ampm(objs[n])]

(* the first loop of validate_and_fix_d_t_fmt: the last entry of that key made
   of one String, the empty string when there is none *)
LastString(values, key) ==
    LET at == {n \in DOMAIN values : values[n][1] = key /\ IsStrings(values[n][2], 1)}
        last == CHOOSE n \in at : \A m \in at : m <= n
    IN  IF at = {} THEN <<>> ELSE values[last][2][1].s

inline_d_t_fmt(val, values) ==
    Replace(Replace(Replace(val, <<"%", "x">>, LastString(values, KeyDFmt)),
                    <<"%", "X">>, LastString(values, KeyTFmt)),
            <<"%", "r">>, LastString(values, KeyTFmtAmpm))

(* the second loop: vec[0] of every d_t_fmt entry *)
fix_d_t_fmt_entry(entry, values) ==
    IF entry[1] = KeyDTFmt /\ entry[2][1].tag = "String"
    THEN <<entry[1], [entry[2] EXCEPT ![1] = StringValue(inline_d_t_fmt(@.s, values))]>>
    ELSE entry

fix_d_t_fmt(obj) ==
    IF obj.name # LC_TIME THEN obj
    ELSE Object(obj.name,
                [n \in DOMAIN obj.values |->
                    fix_d_t_fmt_entry(obj.values[n], obj.values)])

(* vec[0] panics on a d_t_fmt entry without values *)
d_t_fmt_panics(objs) ==
    \E n \in DOMAIN objs :
        /\ objs[n].name = LC_TIME
        /\ \E m \in DOMAIN objs[n].values :
              objs[n].values[m][1] = KeyDTFmt /\ objs[n].values[m][2] = <<>>

validate_and_fix_d_t_fmt(objs) == [n \in DOMAIN objs |-> fix_d_t_fmt(objs[n])]

validate_and_fix(objs) ==
    IF d_t_fmt_panics(objs) THEN [ok |-> FALSE, objects |-> objs]
    ELSE [ok |-> TRUE,
          objects |-> validate_and_fix_d_t_fmt(validate_and_fix_t_fmt_ampm(objs))]

-----------------------------------------------------------------------------
(* Inputs of main: a directory of up to MaxFiles files, their names the
   strings of up to MaxNameLen characters over NameChars and a few longer
   ones *)

MaxFiles == 1
MaxNameLen == 2

NameChars == {"a", "_", "@"}

ShortNames == UNION {[1..n -> NameChars] : n \in 1..MaxNameLen}

NameLangCountryVariant == <<"a", "a", "_", "B", "B", "@", "c", "c">>
NameLangCountry == <<"a", "_", "a">>
NameLangVariant == <<"a", "@", "a">>
NameTranslit == Translit
NameTranslitCountry == <<"t", "r", "a", "n", "s", "l", "i", "t", "_", "a">>
NameTranslitLonger == <<"t", "r", "a", "n", "s", "l", "i", "t", "a">>
NameDigit == <<"a", "1">>
NameTwoCountries == <<"a", "_", "a", "_", "a">>
NameVariantFirst == <<"a", "@", "a", "_", "a">>

FileNames ==
    ShortNames \cup {NameLangCountryVariant, NameLangCountry, NameLangVariant,
                     NameTranslit, NameTranslitCountry, NameTranslitLonger, NameDigit,
                     NameTwoCountries, NameVariantFirst}

Readable(text) == [readable |-> TRUE, text |-> text]
Unreadable == [readable |-> FALSE, text |-> <<>>]

TextLcTime == FileText(PreambleCommentEscape, <<FieldFirstWeekday>>, TailNewline)
TextJunk == <<"j", "u", "n", "k", "\n">>

Contents == {Readable(TextLcTime), Readable(TextJunk), Unreadable}

(* files of one category of up to MaxFields field lines about time formats,
   without preamble *)
TimeDTFmt == <<"d", "_", "t", "_", "f", "m", "t", " ", "\"", "%", "x", " ", "%", "X", " ", "%", "r", "\"">>
TimeDTFmtNoValue == <<"d", "_", "t", "_", "f", "m", "t">>
TimeDFmt == <<"d", "_", "f", "m", "t", " ", "\"", "%", "d", "\"">>
TimeTFmt == <<"t", "_", "f", "m", "t", " ", "\"", "%", "r", "\"">>
TimeTFmtAmpm == <<"t", "_", "f", "m", "t", "_", "a", "m", "p", "m", " ", "\"", "%", "I", "\"">>
TimeAmPmEmpty == <<"a", "m", "_", "p", "m", " ", "\"", "\"", ";", "\"", "\"">>
TimeAmPm == <<"a", "m", "_", "p", "m", " ", "\"", "A", "M", "\"", ";", "\"", "P", "M", "\"">>
TimeCopy == <<"c", "o", "p", "y", " ", "\"", "a", "a", "\"">>

TimeFieldPool ==
    {TimeDTFmt, TimeDTFmtNoValue, TimeDFmt, TimeTFmt, TimeTFmtAmpm, TimeAmPmEmpty,
     TimeAmPm, TimeCopy}

CategoryText(name, lines) == name \o <<"\n">> \o JoinLines(lines) \o EndTag(name) \o <<"\n">>

TimeFiles ==
    UNION { {CategoryText(name, lines) : name \in {LC_TIME, LC_NUMERIC},
                                         lines \in [1..n -> TimeFieldPool]} :
            n \in 0..MaxFields }

-----------------------------------------------------------------------------
(* main, up to the call of CodeGenerator::new(locales) *)

(* the sets of up to n file names *)
RECURSIVE Directories(_)
Directories(n) ==
    IF n = 0 THEN {{}}
    ELSE {names \cup {name} : names \in Directories(n - 1), name \in FileNames}
         \cup {{}}

(* the sets of two names *)
Pairs(S) == {{a, b} : a \in S, b \in S} \ {{a} : a \in S}

MainInit ==
    /\ \/ \E names \in Directories(MaxFiles) : dir \in [names -> Contents]
       \/ \E file \in TimeFiles : dir = [name \in {NameLangCountryVariant} |-> Readable(file)]
       \/ \E names \in Pairs(FileNames) : dir = [name \in names |-> Readable(TextLcTime)]
    /\ entries = DOMAIN dir
    /\ locales = <<>>
    /\ mpc = "read"
    /\ ValueIdle
    /\ input = <<>>
    /\ remaining = <<>>
    /\ special_chars = <<>>
    /\ parsed = <<>>
    /\ ppc = "idle"
    /\ objects = <<>>
    /\ pc = "idle"
    /\ todo = {}
    /\ cur = <<>>
    /\ oi = 0
    /\ groups = <<>>
    /\ fields = <<>>
    /\ by_language = <<>>
    /\ field_metadata = <<>>
    /\ normalized_langs = <<>>
    /\ second_todo = {}
    /\ visited = <<>>
    /\ out = <<>>
    /\ variants = <<>>

(* parse_lang(lang).is_err(): continue *)
MainSkipName ==
    /\ mpc = "read"
    /\ \E name \in entries :
          /\ ~parse_lang(name).ok
          /\ entries' = entries \ {name}
    /\ UNCHANGED <<dir, locales, mpc>>
    /\ UNCHANGED <<gvars, pvars, rvars>>

(* read_to_string is not Ok: the body of the if let is skipped *)
MainUnreadable ==
    /\ mpc = "read"
    /\ \E name \in entries :
          /\ parse_lang(name).ok
          /\ ~dir[name].readable
          /\ entries' = entries \ {name}
    /\ UNCHANGED <<dir, locales, mpc>>
    /\ UNCHANGED <<gvars, pvars, rvars>>

ParseFailed(r) == ~r.ok

(* parser::parse(&input)? returns the error from main *)
MainParseError ==
    /\ mpc = "read"
    /\ \E name \in entries :
          /\ parse_lang(name).ok
          /\ dir[name].readable
          /\ ParseFailed(parse_text(dir[name].text))
          /\ entries' = entries \ {name}
    /\ mpc' = "failed"
    /\ UNCHANGED <<dir, locales>>
    /\ UNCHANGED <<gvars, pvars, rvars>>

(* validate_and_fix(&mut objects); locales.insert(lang, objects) *)
InsertFixed(name, fixed) ==
    IF fixed.ok
    THEN locales' = Put(locales, name, fixed.objects) /\ mpc' = mpc
    ELSE locales' = locales /\ mpc' = "panic"

InsertParsed(name, r) == r.ok /\ InsertFixed(name, validate_and_fix(r.objects))

MainInsert ==
    /\ mpc = "read"
    /\ \E name \in entries :
          /\ parse_lang(name).ok
          /\ dir[name].readable
          /\ InsertParsed(name, parse_text(dir[name].text))
          /\ entries' = entries \ {name}
    /\ UNCHANGED dir
    /\ UNCHANGED <<gvars, pvars, rvars>>

(* the loop is over: locales goes to CodeGenerator::new *)
MainEnd ==
    /\ mpc = "read"
    /\ entries = {}
    /\ mpc' = "generate"
    /\ UNCHANGED <<dir, entries, locales>>
    /\ UNCHANGED <<gvars, pvars, rvars>>

MainNext ==
    \/ MainSkipName
    \/ MainUnreadable
    \/ MainParseError
    \/ MainInsert
    \/ MainEnd

MainSpec == MainInit /\ [][MainNext]_vars

-----------------------------------------------------------------------------
(* The forms L, L_T, L@M and L_T@M of a locale name *)

IsAlphabetic(s) == s # <<>> /\ \A n \in DOMAIN s : s[n] \in Alphabetic

(* s is empty, or c and an alphabetic string *)
OptionalPart(s, c) == s = <<>> \/ (s[1] = c /\ IsAlphabetic(Tail(s)))

(* the ways of reading s as L, optionally _T, optionally @M *)
LangForms(s) ==
    { [lang |-> Take(s, ab[1]),
       country |-> SubSeq(s, ab[1] + 2, ab[2]),
       variant |-> SubSeq(s, ab[2] + 2, Len(s))] :
      ab \in { x \in (DOMAIN s) \X (DOMAIN s) :
                 /\ x[1] <= x[2]
                 /\ IsAlphabetic(Take(s, x[1]))
                 /\ Take(s, x[1]) # Translit
                 /\ OptionalPart(SubSeq(s, x[1] + 1, x[2]), "_")
                 /\ OptionalPart(SubSeq(s, x[2] + 1, Len(s)), "@") } }

LangTuple(r) == [lang |-> r.lang, country |-> r.country, variant |-> r.variant]

(* the files of the directory main parses: an accepted name, readable *)
ParsedFiles == {name \in DOMAIN dir : LangForms(name) # {} /\ dir[name].readable}

(* C16: parse_lang(s) succeeds exactly when s has the form L, L_T, L@M or
   L_T@M, with L, T and M non-empty alphabetic strings and L other than
   translit, and then returns (L, T if present, M if present); main neither
   parses nor fails on a file whose name parse_lang rejects, so that the file
   contributes no locale *)
C16_ParseLang ==
    /\ \A name \in DOMAIN dir :
          /\ parse_lang(name).ok <=> LangForms(name) # {}
          /\ parse_lang(name).ok => LangForms(name) = {LangTuple(parse_lang(name))}
    /\ mpc = "generate" => DOMAIN locales = ParsedFiles
    /\ mpc = "failed" => \E name \in ParsedFiles : ~parse_text(dir[name].text).ok

C16_Witness ==
    /\ mpc = "generate"
    /\ \E name \in DOMAIN dir : LangForms(name) = {} /\ dir[name] = Readable(TextJunk)
    /\ DOMAIN locales = ParsedFiles

-----------------------------------------------------------------------------
(* Display for Value, read back by the value rule *)

MaxValueLen == 2

ValueChars == {"a", "1", " ", "\"", "\\", "/", "\n"}

TextDFmt == <<"%", "d", "/", "%", "m", "/", "%", "y">>
TextUnicodeA == <<"<", "U", "0", "0", "4", "1", ">">>

Texts == UNION {[1..n -> ValueChars] : n \in 0..MaxValueLen} \cup {TextDFmt, TextUnicodeA}

(* parse_raw is a fold_many1: a Raw is never empty *)
Values ==
    {RawValue(s) : s \in Texts \ {<<>>}}
        \cup {StringValue(s) : s \in Texts}
        \cup {IntegerValue(n) : n \in {0, 2, -5, 2147483647, -2147483647}}

(* <comment_char, escape_char>: the defaults, and two declared pairs *)
SpecialChars == {<<"#", NUL>>, <<"%", "/">>, <<"%", "\\">>}

ValueInit ==
    /\ shown \in Values
    /\ displayed = <<>>
    /\ reparsed = <<>>
    /\ vpc = "value"
    /\ special_chars \in SpecialChars
    /\ input = <<>>
    /\ remaining = <<>>
    /\ parsed = <<>>
    /\ ppc = "idle"
    /\ MainIdle
    /\ objects = <<>>
    /\ pc = "idle"
    /\ todo = {}
    /\ cur = <<>>
    /\ oi = 0
    /\ groups = <<>>
    /\ fields = <<>>
    /\ by_language = <<>>
    /\ field_metadata = <<>>
    /\ normalized_langs = <<>>
    /\ second_todo = {}
    /\ visited = <<>>
    /\ out = <<>>
    /\ variants = <<>>

(* to_string() of the Value *)
DisplayValue ==
    /\ vpc = "value"
    /\ displayed' = ValueToString(shown)
    /\ vpc' = "text"
    /\ UNCHANGED <<shown, reparsed>>
    /\ UNCHANGED <<gvars, pvars, mvars>>

(* value(displayed, escape_char, comment_char) *)
ReparseValue ==
    /\ vpc = "text"
    /\ reparsed' = value(displayed, special_chars[2], special_chars[1])
    /\ vpc' = "reparsed"
    /\ UNCHANGED <<shown, displayed>>
    /\ UNCHANGED <<gvars, pvars, mvars>>

ValueNext ==
    \/ DisplayValue
    \/ ReparseValue

ValueSpec == ValueInit /\ [][ValueNext]_vars

(* C17: for every Value v, Raw, String or Integer, the value rule applied to
   the text Display gives for v reads the whole text and yields v *)
C17_DisplayRoundTrip ==
    vpc = "reparsed" =>
        /\ reparsed.k = "ok"
        /\ reparsed.rest = <<>>
        /\ reparsed.val = shown

-----------------------------------------------------------------------------
(* The constants emitted for the fields of a category *)

(* the literals of an emitted value, in order *)
EmittedLiterals(val) ==
    CASE val.kind = "Literal" -> <<val.lit>>
      [] val.kind = "Array" -> val.arr
      [] val.kind = "Array2d" -> Concat(val.mat)
      [] val.kind = "Empty" -> <<>>

(* the emitted literal lit denotes the parsed value: as a string constant, the
   Rust literal whose content is the text of the Raw or String, which is the
   Debug form of that text; as an integer constant, the number *)
CarriesValue(lit, parsed_value, ty) ==
    IF ty = "Integer" THEN lit = IntToStr(parsed_value.n)
    ELSE parsed_value.tag # "Integer" => lit = DebugStr(parsed_value.s)

(* the groups of an object whose normalized key no other group of it has *)
OwnGroups(obj) ==
    LET grouped == GroupByKey(obj.values)
    IN  {x \in Range(grouped) :
            \A y \in Range(grouped) : NormalizeKey(y[1]) = NormalizeKey(x[1]) => y = x}

(* C18: the constant emitted for a field carries the parsed value unchanged:
   of canonical type String, its content is the text of the parsed Raw or
   String with no quote or escape character added; of canonical type Integer,
   it is the parsed number; element by element for arrays (for the last
   category of its name in the locale, and a key whose normalized form no
   other key of the category has) *)
C18_ConstantsCarryValues ==
    pc = "generated" =>
        \A lang \in DOMAIN objects : \A n \in DOMAIN objects[lang] :
            (ReachesGrouping(objects[lang][n]) /\ LastOfName(lang, n)) =>
                \A x \in OwnGroups(objects[lang][n]) :
                    LET const == out[lang].cats[objects[lang][n].name].consts[NormalizeKey(x[1])]
                        lits == EmittedLiterals(const.val)
                        given == Concat(x[2])
                    IN  /\ Len(lits) = Len(given)
                        /\ \A m \in DOMAIN lits :
                              CarriesValue(lits[m], given[m], const.ty.ty)

-----------------------------------------------------------------------------
(* The conversion of the generated API *)

UnknownLocale == [ok |-> FALSE, locale |-> <<>>]

(* the emitted match i { .. }: the first arm whose string literal denotes i,
   a literal denoting the string it is the Debug form of; without such an arm,
   the arm _ => Err(UnknownLocale) *)
RECURSIVE try_from(_, _)
try_from(arms, i) ==
    IF arms = <<>> THEN UnknownLocale
    ELSE IF Head(arms).pat = DebugStr(i) THEN [ok |-> TRUE, locale |-> Head(arms).variant]
    ELSE try_from(Tail(arms), i)

EnumVariants == {variants.enum[n].norm : n \in DOMAIN variants.enum}

(* strings given to the conversion: the locale names of the model, their
   normalized names, and names of no locale *)
Probes == Langs \cup {NormalizeLang(lang) : lang \in Langs}
              \cup {ZZ, <<>>, <<"a">>, <<"A", "A">>, <<"a", "a", "a">>, <<"b", "b">>}

(* C19: in the generated API the conversion of a string to Locale succeeds if
   and only if the string is the name of one of the input locales, and then
   gives the variant of that locale, its name with @ replaced by _, which is
   a variant of the enum; every other string gives UnknownLocale *)
C19_TryFrom ==
    pc = "generated" =>
        \A i \in Probes :
            IF i \in DOMAIN objects
            THEN /\ try_from(variants.try_from, i) =
                        [ok |-> TRUE, locale |-> Replace(i, <<"@">>, <<"_">>)]
                 /\ Replace(i, <<"@">>, <<"_">>) \in EnumVariants
            ELSE try_from(variants.try_from, i) = UnknownLocale

C19_Witness ==
    /\ pc = "generated"
    /\ try_from(variants.try_from, BB) = [ok |-> TRUE, locale |-> <<"b", "b", "_", "x">>]
    /\ try_from(variants.try_from, <<"b", "b", "_", "x">>) = UnknownLocale
    /\ try_from(variants.try_from, AA).ok

-----------------------------------------------------------------------------
(* Fields categories *)

(* the table by_language holds for the category of that name of the locale *)
TableOf(lang, name) ==
    IF name \in DOMAIN by_language[lang] THEN by_language[lang][name]
    ELSE [kind |-> "None", lang |-> <<>>, name |-> <<>>, fields |-> <<>>]

(* C20: every category of a locale that is not a Link is a Fields table after
   CodeGenerator::new: each of its keys with a non-empty value list is, under
   its normalized key, in the table of the locale with the value of the locale
   and in the canonical schema of the category, a category of a single field
   included (for the last category of its name in the locale, a name that is
   not one of the five ignored ones, and a key whose normalized form no other
   key of the category has) *)
C20_NonLinkIsFields ==
    pc = "done" =>
        \A lang \in DOMAIN objects : \A n \in DOMAIN objects[lang] :
            (/\ ~IgnoredCategory(objects[lang][n].name)
             /\ ~IsAliasOnly(objects[lang][n])
             /\ LastOfName(lang, n)) =>
                /\ TableOf(lang, objects[lang][n].name).kind = "Fields"
                /\ objects[lang][n].name \in DOMAIN field_metadata
                /\ \A x \in OwnGroups(objects[lang][n]) :
                      /\ NormalizeKey(x[1]) \in DOMAIN field_metadata[objects[lang][n].name]
                      /\ NormalizeKey(x[1]) \in
                             DOMAIN TableOf(lang, objects[lang][n].name).fields
                      /\ TableOf(lang, objects[lang][n].name).fields[NormalizeKey(x[1])] =
                             ClassifyGroup(MetaNew, x[2]).value

-----------------------------------------------------------------------------
(* Arity of the values of the tables *)

(* the arity of a generator Value; 0 for the absence marker *)
ValueRank(val) ==
    CASE val.kind = "Empty" -> 0
      [] val.kind = "Literal" -> 1
      [] val.kind = "Array" -> 2
      [] val.kind = "Array2d" -> 3

(* the value of exactly the arity of container_ty that val is lifted to *)
Lifted(val, container_ty) ==
    IF ValueRank(val) = Rank(container_ty) THEN val
    ELSE IF val.kind = "Literal" /\ container_ty = "Array" THEN ValueArray(<<val.lit>>)
    ELSE IF val.kind = "Literal" /\ container_ty = "Array2D" THEN ValueArray2d(<<<<val.lit>>>>)
    ELSE IF val.kind = "Array" /\ container_ty = "Array2D" THEN ValueArray2d(<<val.arr>>)
    ELSE ValueEmpty

(* the fields of the Fields tables after CodeGenerator::new: <<lang, category, field>> *)
TableFields ==
    UNION { UNION { { <<lang, c, k>> : k \in DOMAIN by_language[lang][c].fields } :
                    c \in { x \in DOMAIN by_language[lang] :
                               by_language[lang][x].kind = "Fields" } } :
            lang \in DOMAIN by_language }

(* C21: for every locale and canonical field, the arity of the value in the
   table of the locale is at most the canonical arity, with_fixed_type reaches
   no unreachable branch, and it returns the absence marker or a value of
   exactly the canonical arity: a scalar as an array of one element under
   Array and a matrix of one row of one element under Array2D, an array as a
   matrix of one row under Array2D *)
C21_FixedTypeArity ==
    pc = "done" =>
        \A f \in TableFields :
            /\ f[2] \in DOMAIN field_metadata
            /\ f[3] \in DOMAIN field_metadata[f[2]]
            /\ LET val == by_language[f[1]][f[2]].fields[f[3]]
                   meta == field_metadata[f[2]][f[3]]
               IN  /\ ValueRank(val) <= Rank(meta.container_ty)
                   /\ with_fixed_type(val, meta).ok
                   /\ with_fixed_type(val, meta).value = Lifted(val, meta.container_ty)
                   /\ \/ with_fixed_type(val, meta).value = ValueEmpty
                      \/ ValueRank(with_fixed_type(val, meta).value) = Rank(meta.container_ty)

(* a scalar in the table of one locale for a field whose canonical arity is
   Array *)
C21_Witness ==
    /\ pc = "done"
    /\ \E f \in TableFields :
           /\ by_language[f[1]][f[2]].fields[f[3]].kind = "Literal"
           /\ field_metadata[f[2]][f[3]].container_ty = "Array"

-----------------------------------------------------------------------------
(* validate_and_fix as main applies it: locales[name] against the objects
   parse gave for the file *)

BeforeFix(name) == parse_text(dir[name].text).objects

KeysOf(values) == [n \in DOMAIN values |-> values[n][1]]

HasTFmtAmpmKey(values) ==
    \E n \in DOMAIN values : values[n][1] \in {KeyTFmtAmpm, KeyCopy, KeyInsert}

(* the am_pm of the category, its last one, is two empty Strings *)
AmPmTwoEmpty(values) ==
    LET at == {n \in DOMAIN values : values[n][1] = KeyAmPm}
    IN  /\ at # {}
        /\ values[MaxOf(at)][2] = <<StringValue(<<>>), StringValue(<<>>)>>

(* C22: after validate_and_fix every LC_TIME category has a field of key
   t_fmt_ampm, copy or insert; when it had none, exactly one field t_fmt_ampm
   is appended, its value the single String "" when the am_pm of the category
   is two empty strings and the single String "%l:%M:%S %p" otherwise; a
   category of another name, and an LC_TIME category that had such a key, get
   no field added *)
C22_TFmtAmpm ==
    \A name \in DOMAIN locales :
        /\ Len(locales[name]) = Len(BeforeFix(name))
        /\ \A n \in DOMAIN locales[name] :
              LET before == BeforeFix(name)[n].values
                  after == locales[name][n].values
              IN  /\ locales[name][n].name = BeforeFix(name)[n].name
                  /\ locales[name][n].name = LC_TIME => HasTFmtAmpmKey(after)
                  /\ IF locales[name][n].name = LC_TIME /\ ~HasTFmtAmpmKey(before)
                     THEN /\ KeysOf(after) = Append(KeysOf(before), KeyTFmtAmpm)
                          /\ after[Len(after)][2] =
                                 <<StringValue(IF AmPmTwoEmpty(before) THEN <<>>
                                               ELSE PosixTFmtAmpm)>>
                     ELSE KeysOf(after) = KeysOf(before)

(* an LC_TIME category with am_pm "";"" and no t_fmt_ampm got t_fmt_ampm "" *)
C22_Witness ==
    /\ mpc = "generate"
    /\ \E name \in DOMAIN locales : \E n \in DOMAIN locales[name] :
           /\ locales[name][n].name = LC_TIME
           /\ ~HasTFmtAmpmKey(BeforeFix(name)[n].values)
           /\ AmPmTwoEmpty(BeforeFix(name)[n].values)
           /\ locales[name][n].values[Len(locales[name][n].values)] =
                  <<KeyTFmtAmpm, <<StringValue(<<>>)>> >>

-----------------------------------------------------------------------------
(* d_t_fmt after validate_and_fix *)

(* the string of the field of that key in the category: of its last field of
   that key, when that is a single String; otherwise the empty string *)
FieldString(values, key) ==
    LET at == {n \in DOMAIN values : values[n][1] = key}
    IN  IF at # {} /\ IsStrings(values[MaxOf(at)][2], 1)
        THEN values[MaxOf(at)][2][1].s
        ELSE <<>>

(* s with every %x, %X and %r of s replaced, from left to right, by d, t and r *)
RECURSIVE Inlined(_, _, _, _)
Inlined(s, d, t, r) ==
    IF s = <<>> THEN <<>>
    ELSE IF StartsWith(s, <<"%", "x">>) THEN d \o Inlined(Drop(s, 2), d, t, r)
    ELSE IF StartsWith(s, <<"%", "X">>) THEN t \o Inlined(Drop(s, 2), d, t, r)
    ELSE IF StartsWith(s, <<"%", "r">>) THEN r \o Inlined(Drop(s, 2), d, t, r)
    ELSE <<Head(s)>> \o Inlined(Tail(s), d, t, r)

(* the field after the step, given the field before it and the fields of the
   category after the step *)
InlinedField(entry, after) ==
    IF entry[1] = KeyDTFmt /\ entry[2] # <<>> /\ entry[2][1].tag = "String"
    THEN <<entry[1],
           [entry[2] EXCEPT ![1] =
               StringValue(Inlined(@.s, FieldString(after, KeyDFmt),
                                   FieldString(after, KeyTFmt),
                                   FieldString(after, KeyTFmtAmpm)))]>>
    ELSE entry

(* C23: after validate_and_fix, in every LC_TIME category with a d_t_fmt field
   the d_t_fmt string is the original with every %x, %X and %r replaced by the
   d_fmt, t_fmt and t_fmt_ampm string of the category, t_fmt_ampm being the
   one present after the t_fmt_ampm fix; no other field is changed; and the
   step fails for no parsed LC_TIME category *)
C23_DTFmtInlined ==
    /\ mpc # "panic"
    /\ \A name \in DOMAIN locales : \A n \in DOMAIN locales[name] :
          \A m \in DOMAIN BeforeFix(name)[n].values :
              locales[name][n].values[m] =
                  IF locales[name][n].name = LC_TIME
                  THEN InlinedField(BeforeFix(name)[n].values[m], locales[name][n].values)
                  ELSE BeforeFix(name)[n].values[m]

-----------------------------------------------------------------------------
(* C24: after CodeGenerator::new every canonical field of field_metadata has
   a determined scalar type, String or Integer and never None, so that
   Value::generate, which unwraps the type, and TypeFormatter, for which None
   is unreachable, find a type for every field of every Fields table *)
C24_TypeDetermined ==
    pc = "done" =>
        /\ \A ck \in MetaKeys(field_metadata) :
              field_metadata[ck[1]][ck[2]].ty \in {"String", "Integer"}
        /\ \A f \in TableFields :
              GenerateValue(by_language[f[1]][f[2]].fields[f[3]],
                            field_metadata[f[2]][f[3]]).ok

(* a schema with a field of each type, one of them absent from a locale *)
C24_Witness ==
    /\ pc = "done"
    /\ \E ck \in MetaKeys(field_metadata) : field_metadata[ck[1]][ck[2]].ty = "Integer"
    /\ \E ck \in MetaKeys(field_metadata) : field_metadata[ck[1]][ck[2]].ty = "String"
    /\ \E f \in TableFields : by_language[f[1]][f[2]].fields[f[3]] = ValueEmpty

-----------------------------------------------------------------------------
(* the category names of the tables of the locales *)
TableNames == UNION { DOMAIN by_language[lang] : lang \in DOMAIN by_language }

(* C25: after CodeGenerator::new every category name in the table of some
   locale, as a Fields table or as a Link, has an entry in field_metadata, so
   the lookup generate does for each category it emits does not fail, a
   category that is only a Link in the input included *)
C25_TablesHaveMetadata ==
    /\ pc = "done" => TableNames \subseteq DOMAIN field_metadata
    /\ pc # "gen_panic"

-----------------------------------------------------------------------------
(* C26: two distinct locale names accepted by parse_lang have distinct
   normalized names, the name with @ replaced by _, so that no two locales
   given to CodeGenerator::new share a module name or a variant of Locale *)
C26_DistinctNormalizedNames ==
    \A a \in DOMAIN locales : \A b \in DOMAIN locales :
        a # b => NormalizeLang(a) # NormalizeLang(b)

====
